---- MODULE Spec2Model ----
(***************************************************************************)
(* Model of mcp-grafana's Python client module (src/mcp_grafana/client.py):*)
(* the three httpx auth strategies, the GrafanaClient constructor and      *)
(* from_settings factory, the grafana_client context variable, and the     *)
(* get/post verbs and the endpoint methods built on them; of the tool loop *)
(* of the test harness (tests/utils.py) and of the documentation link      *)
(* checker (docs/docs.agent/links.py).                                     *)
(*                                                                         *)
(* Five specifications:                                                    *)
(*   Spec       concurrent inbound requests, each handled in its own task  *)
(*              (own copy of the context), binding and reading the         *)
(*              grafana_client context variable and issuing outbound calls *)
(*   SpecBuild  the construction paths as pure functions of their inputs,  *)
(*              drawn in the initial state, followed by outbound requests  *)
(*   SpecFacade the calls made on one client: get, post and the endpoint   *)
(*              methods, the request each sends, the response or transport *)
(*              error that answers it, and how the call ends               *)
(*   SpecLoop   run_llm_tool_loop against a model that requests tool calls *)
(*              over several rounds, and assert_expected_tools_called on   *)
(*              what the loop recorded                                     *)
(*   SpecLinks  links.py on a docs tree whose links are drawn in the       *)
(*              initial state                                              *)
(***************************************************************************)
EXTENDS Integers, Sequences, FiniteSets, TLC

VARIABLES
    \* ---- Spec: request handling
    pc,                \* [Requests -> "idle" | "accepted" | "bound" | "done"]
    depth,             \* [Requests -> 0..MaxDepth] nesting of the request's task tree
    grafana_settings,  \* the settings ContextVar: its value in each task's context
    grafana_client,    \* the client ContextVar (client.py:286): value per context
    sent,              \* [Requests -> the outbound request in flight, or NoRequest]
    \* ---- SpecBuild: construction as a function of its inputs
    args,              \* the inputs: url, api_key, access_token, id_token
    how,               \* "none" | "by_value" | "from_settings"
    client,            \* the GrafanaClient built, or NoClient
    request,           \* the last outbound request of client, or NoRequest
    nsent,             \* number of outbound requests issued by client
    \* ---- SpecVerbs, SpecFacade: calls on one client
    gc,                \* the GrafanaClient the calls are made on
    call,              \* the call in progress or last finished, or NoCall
    ncalls,            \* number of calls made on gc so far
    failed,            \* whether an earlier call on gc ended in a failure
    \* ---- SpecLoop: the test harness's tool loop (tests/utils.py)
    lpc,               \* "acompletion" | "while" | "returned": where the loop is
    llm_response,      \* the model's latest response, or NoCompletion
    tc,                \* position of the for loop in the response's tool calls
    messages,          \* the message history
    tools_called,      \* the records of the tool calls made so far
    asked,             \* every response the model has given, in order
    final_content,     \* the content returned, or NoneValue before the return
    expected,          \* the tools the test expects, or NotReturned until asserted
    verdict,           \* of assert_expected_tools_called: "none", "passed", "AssertionError"
    \* ---- SpecLinks: the documentation link checker (docs/docs.agent/links.py)
    argv,              \* the command line
    tree,              \* the docs tree: the links in each Markdown file
    unreadable,        \* the Markdown files that cannot be read
    todo,              \* the files rglob has yet to yield
    md,                \* the file being scanned, or NoFile
    found,             \* the links of md that are yet to be checked
    errors,            \* the global list of error messages
    stdout,            \* the lines printed
    stderr,            \* what went to standard error
    exited             \* "no" while running, then the exit status "0" or "1"

reqVars   == <<pc, depth, grafana_settings, grafana_client, sent>>
buildVars == <<args, how, client, request, nsent>>
callVars  == <<gc, call, ncalls, failed>>
loopVars  == <<lpc, llm_response, tc, messages, tools_called, asked, final_content,
               expected, verdict>>
linkVars  == <<argv, tree, unreadable, todo, md, found, errors, stdout, stderr,
               exited>>
vars      == <<pc, depth, grafana_settings, grafana_client, sent,
               args, how, client, request, nsent,
               gc, call, ncalls, failed,
               lpc, llm_response, tc, messages, tools_called, asked, final_content,
               expected, verdict,
               argv, tree, unreadable, todo, md, found, errors, stdout, stderr,
               exited>>

----------------------------------------------------------------------------
(* Bounds *)

MaxRequests == 2     \* concurrent inbound requests
MaxDepth    == 1     \* nested tasks below a request's root task
MaxSends    == 2     \* outbound requests per built client in SpecBuild

Requests == 1..MaxRequests

----------------------------------------------------------------------------
(* Values *)

\* Python's None for an optional str argument; no token equals it.
None == "<None>"

NoRequest == [kind |-> "NoRequest"]
NoClient  == [kind |-> "NoClient"]
NoContext == [kind |-> "NoContext"]     \* the task (and its context) does not exist
NoCall    == [kind |-> "NoCall"]

\* httpx.Timeout(timeout=30.0), client.py:88
DefaultTimeout == 30

\* The names of the credential-bearing headers (client.py:45,54,64,65).
CredentialHeaders == {"Authorization", "X-Access-Token", "X-Grafana-Id"}

NoHeaders == [h \in {} |-> ""]

----------------------------------------------------------------------------
(* Credential strategies: client.py:40-66 *)

BearerAuth(api_key) == [kind |-> "BearerAuth", api_key |-> api_key]

AccessTokenAuth(access_token) ==
    [kind |-> "AccessTokenAuth", access_token |-> access_token]

AccessTokenOnBehalfOfAuth(access_token, id_token) ==
    [kind |-> "AccessTokenOnBehalfOfAuth",
     access_token |-> access_token, id_token |-> id_token]

\* auth=None: httpx attaches nothing
NoAuth == [kind |-> "None"]

\* request.headers[name] = value
SetHeader(req, name, value) ==
    [req EXCEPT !.headers = (name :> value) @@ @]

BearerAuth_auth_flow(self, req) ==
    SetHeader(req, "Authorization", "Bearer " \o self.api_key)

AccessTokenAuth_auth_flow(self, req) ==
    SetHeader(req, "X-Access-Token", self.access_token)

\* An on-behalf-of flow that also sends the access token as a Bearer credential.
Mut_OnBehalfOf_auth_flow_bearer(self, req) ==
    SetHeader(SetHeader(SetHeader(req, "Authorization", "Bearer " \o self.access_token),
                        "X-Access-Token", self.access_token),
              "X-Grafana-Id", self.id_token)

AccessTokenOnBehalfOfAuth_auth_flow(self, req) ==
    SetHeader(SetHeader(req, "X-Access-Token", self.access_token),
              "X-Grafana-Id", self.id_token)

\* httpx calls the auth_flow of the client's auth object on every request it
\* sends; with auth=None the request goes out as built.
auth_flow(auth, req) ==
    CASE auth.kind = "BearerAuth"                -> BearerAuth_auth_flow(auth, req)
      [] auth.kind = "AccessTokenAuth"           -> AccessTokenAuth_auth_flow(auth, req)
      [] auth.kind = "AccessTokenOnBehalfOfAuth" -> AccessTokenOnBehalfOfAuth_auth_flow(auth, req)
      [] OTHER                                   -> req

----------------------------------------------------------------------------
(* GrafanaClient construction: client.py:70-119 *)

\* A constructor mutant that validates its inputs and fails fast.
Mut_init_fail_fast(url, api_key, access_token, id_token) ==
    IF api_key = None /\ access_token = None
    THEN [kind |-> "ValueError"]
    ELSE [kind |-> "GrafanaClient",
          c |-> [base_url |-> url,
                 auth |-> IF api_key # None THEN BearerAuth(api_key)
                          ELSE IF id_token # None
                               THEN AccessTokenOnBehalfOfAuth(access_token, id_token)
                               ELSE AccessTokenAuth(access_token),
                 timeout |-> DefaultTimeout]]

\* A constructor mutant with the first two tests swapped: on-behalf-of wins
\* over the API key.
Mut_init_obo_first(url, api_key, access_token, id_token) ==
    LET auth == IF access_token # None /\ id_token # None
                     THEN AccessTokenOnBehalfOfAuth(access_token, id_token)
                ELSE IF api_key # None THEN BearerAuth(api_key)
                ELSE IF access_token # None THEN AccessTokenAuth(access_token)
                ELSE NoAuth
    IN  [kind |-> "GrafanaClient",
         c |-> [base_url |-> url, auth |-> auth, timeout |-> DefaultTimeout]]

\* A constructor mutant without the access-token-only branch.
Mut_init_no_access_branch(url, api_key, access_token, id_token) ==
    LET auth == IF api_key # None THEN BearerAuth(api_key)
                ELSE IF access_token # None /\ id_token # None
                     THEN AccessTokenOnBehalfOfAuth(access_token, id_token)
                ELSE NoAuth
    IN  [kind |-> "GrafanaClient",
         c |-> [base_url |-> url, auth |-> auth, timeout |-> DefaultTimeout]]

\* GrafanaClient.__init__(url, *, api_key, access_token, id_token)
GrafanaClient_init(url, api_key, access_token, id_token) ==
    LET auth == IF api_key # None THEN BearerAuth(api_key)
                ELSE IF access_token # None /\ id_token # None
                     THEN AccessTokenOnBehalfOfAuth(access_token, id_token)
                ELSE IF access_token # None THEN AccessTokenAuth(access_token)
                ELSE NoAuth
    IN  [kind |-> "GrafanaClient",
         c |-> [base_url |-> url, auth |-> auth, timeout |-> DefaultTimeout]]

\* settings.GrafanaSettings: url, api_key, access_token, id_token
GrafanaSettings(url, api_key, access_token, id_token) ==
    [kind |-> "GrafanaSettings", url |-> url, api_key |-> api_key,
     access_token |-> access_token, id_token |-> id_token]

\* A factory mutant that forgets the identity token.
Mut_from_settings_drop_id(settings) ==
    IF settings.access_token # None /\ settings.id_token # None
    THEN GrafanaClient_init(settings.url, None, settings.access_token, None)
    ELSE IF settings.access_token = None
    THEN GrafanaClient_init(settings.url, None, settings.access_token, None)
    ELSE GrafanaClient_init(settings.url, settings.api_key, None, None)

\* GrafanaClient.from_settings(settings): arguments not passed take the
\* constructor's default, None.
from_settings(settings) ==
    IF settings.access_token # None /\ settings.id_token # None
    THEN GrafanaClient_init(settings.url, None, settings.access_token, settings.id_token)
    ELSE IF settings.access_token = None
    THEN GrafanaClient_init(settings.url, None, settings.access_token, None)
    ELSE GrafanaClient_init(settings.url, settings.api_key, None, None)

IsClient(x) == x.kind = "GrafanaClient"

\* The request httpx builds for self.c.get / self.c.post and passes through the
\* client's auth flow before it is sent.
Send(cl, method, path) ==
    auth_flow(cl.c.auth,
              [kind |-> "Request", method |-> method,
               base_url |-> cl.c.base_url, path |-> path, headers |-> NoHeaders])

\* The credential headers a request carries.
CredentialsOf(req) ==
    [h \in (DOMAIN req.headers) \cap CredentialHeaders |-> req.headers[h]]

----------------------------------------------------------------------------
(* Context variables and tasks *)

\* A task is <<request, depth>>; the process's main context, in which the
\* module is imported, is task <<0, 0>>.
Main == <<0, 0>>
Task(r, d) == <<r, d>>
Tasks == {Main} \cup (Requests \X (0..MaxDepth))

\* A read of one process-wide value instead of the caller's context.
Mut_get_process_wide(var, t) == var[Main]

\* ContextVar.get(): the value in the calling task's own context.
ContextVar_get(var, t) == var[t]

\* A single module-level global instead of a context variable: a set is seen
\* by every task.
Mut_global_set(var, t, v) ==
    [x \in DOMAIN var |-> IF x = t \/ var[x] # NoContext THEN v ELSE NoContext]

\* ContextVar.set(v): changes the value in the calling task's context only.
ContextVar_set(var, t, v) == [var EXCEPT ![t] = v]

\* A new task runs in a copy of the context of the task that created it.
copy_context(var, parent, child) == [var EXCEPT ![child] = var[parent]]

\* A finished task's context is dropped with it.
discard_context(var, r) ==
    [t \in DOMAIN var |-> IF t[1] = r THEN NoContext ELSE var[t]]

\* The identity inputs of request r; distinct requests carry distinct values.
UrlOf(r)         == "https://grafana" \o ToString(r)
ApiKeyOf(r)      == "k" \o ToString(r)
AccessTokenOf(r) == "a" \o ToString(r)
IdTokenOf(r)     == "i" \o ToString(r)

\* What settings resolution may produce for request r: every combination of
\* presence and absence of the three identity inputs.
SettingsOf(r) ==
    { GrafanaSettings(UrlOf(r), k, a, i) :
        k \in {None, ApiKeyOf(r)}, a \in {None, AccessTokenOf(r)},
        i \in {None, IdTokenOf(r)} }

\* The server's own settings (stdio-style deployment: a static API key).
DefaultSettings == GrafanaSettings(UrlOf(0), ApiKeyOf(0), None, None)

\* A factory that resolves the server's settings, whoever calls.
Mut_for_current_request_default(settingsVar, t) ==
    from_settings(settingsVar[Main])

\* A factory that hands the caller's settings to the constructor as they are.
Mut_for_current_request_by_value(settingsVar, t) ==
    LET s == ContextVar_get(settingsVar, t)
    IN  GrafanaClient_init(s.url, s.api_key, s.access_token, s.id_token)

\* GrafanaClient.for_current_request(): from_settings(grafana_settings.get())
for_current_request(settingsVar, t) ==
    from_settings(ContextVar_get(settingsVar, t))

\* A GrafanaClient object with its identity: ref names the construction that
\* made it (0: at import; r: for request r).
Object(cl, ref) == ("ref" :> ref) @@ cl

\* Every string by which request r's identity can show in a header.
CredentialValues(r) ==
    {ApiKeyOf(r), "Bearer " \o ApiKeyOf(r), AccessTokenOf(r), IdTokenOf(r)}

Alive(t) ==
    \/ t = Main
    \/ /\ t[1] \in Requests
       /\ pc[t[1]] \in {"accepted", "bound"}
       /\ t[2] <= depth[t[1]]

----------------------------------------------------------------------------
(* Spec: request handling *)

Methods  == {"GET", "POST"}
PathOf(method) == IF method = "GET" THEN "/api/datasources" ELSE "/api/ds/query"
BuildIdle ==
    /\ args = GrafanaSettings(UrlOf(0), None, None, None)
    /\ how = "none"
    /\ client = NoClient
    /\ request = NoRequest
    /\ nsent = 0

\* No call is made on a client outside SpecVerbs and SpecFacade.
CallIdle ==
    /\ gc = NoClient
    /\ call = NoCall
    /\ ncalls = 0
    /\ failed = FALSE

NoCompletion == [kind |-> "NoCompletion"]
NotReturned  == [py |-> "unset"]

\* The tool loop has not been entered.
LoopIdle ==
    /\ lpc = "idle"
    /\ llm_response = NoCompletion
    /\ tc = 1
    /\ messages = <<>>
    /\ tools_called = <<>>
    /\ asked = <<>>
    /\ final_content = NotReturned
    /\ expected = NotReturned
    /\ verdict = "none"

NoFile == <<>>

\* The link checker has not been started.
LinkIdle ==
    /\ argv = <<>>
    /\ tree = <<>>
    /\ unreadable = {}
    /\ todo = {}
    /\ md = NoFile
    /\ found = <<>>
    /\ errors = <<>>
    /\ stdout = <<>>
    /\ stderr = <<>>
    /\ exited = "no"

\* The state after import: client.py:286-287 binds, in the main context, a
\* client built from the settings current at import.
ReqInit ==
    /\ pc = [r \in Requests |-> "idle"]
    /\ depth = [r \in Requests |-> 0]
    /\ grafana_settings =
         [t \in Tasks |-> IF t = Main THEN DefaultSettings ELSE NoContext]
    /\ grafana_client =
         LET unset == [t \in Tasks |-> NoContext]
             gs    == [t \in Tasks |-> IF t = Main THEN DefaultSettings ELSE NoContext]
         IN  ContextVar_set(unset, Main, Object(for_current_request(gs, Main), 0))
    /\ sent = [r \in Requests |-> NoRequest]

Init == ReqInit /\ BuildIdle /\ CallIdle /\ LoopIdle /\ LinkIdle

\* An inbound request arrives: the server handles it in a task of its own,
\* which starts with a copy of the main context.
Accept(r) ==
    /\ pc[r] = "idle"
    /\ pc' = [pc EXCEPT ![r] = "accepted"]
    /\ grafana_settings' = copy_context(grafana_settings, Main, Task(r, 0))
    /\ grafana_client' = copy_context(grafana_client, Main, Task(r, 0))
    /\ UNCHANGED <<depth, sent>>
    /\ UNCHANGED <<buildVars, callVars, loopVars, linkVars>>

\* At the start of handling, the request's settings are resolved and bound, and
\* a fresh client built from them is bound as the current client.
Bind(r) ==
    /\ pc[r] = "accepted"
    /\ \E s \in SettingsOf(r) :
         LET t  == Task(r, 0)
             gs == ContextVar_set(grafana_settings, t, s)
         IN  /\ grafana_settings' = gs
             /\ grafana_client' =
                  ContextVar_set(grafana_client, t, Object(for_current_request(gs, t), r))
    /\ pc' = [pc EXCEPT ![r] = "bound"]
    /\ UNCHANGED <<depth, sent>>
    /\ UNCHANGED <<buildVars, callVars, loopVars, linkVars>>

\* The handler starts a nested task (a copy of its context) and awaits it.
Spawn(r) ==
    /\ pc[r] = "bound"
    /\ sent[r] = NoRequest
    /\ depth[r] < MaxDepth
    /\ depth' = [depth EXCEPT ![r] = @ + 1]
    /\ grafana_settings' =
         copy_context(grafana_settings, Task(r, depth[r]), Task(r, depth[r] + 1))
    /\ grafana_client' =
         copy_context(grafana_client, Task(r, depth[r]), Task(r, depth[r] + 1))
    /\ UNCHANGED <<pc, sent>>
    /\ UNCHANGED <<buildVars, callVars, loopVars, linkVars>>

\* The nested task ends.
Join(r) ==
    /\ pc[r] = "bound"
    /\ sent[r] = NoRequest
    /\ depth[r] > 0
    /\ depth' = [depth EXCEPT ![r] = @ - 1]
    /\ grafana_settings' = [grafana_settings EXCEPT ![Task(r, depth[r])] = NoContext]
    /\ grafana_client' = [grafana_client EXCEPT ![Task(r, depth[r])] = NoContext]
    /\ UNCHANGED <<pc, sent>>
    /\ UNCHANGED <<buildVars, callVars, loopVars, linkVars>>

\* What a facade call of task t sends: the client is grafana_client.get() in
\* t's context, and self.c.get / self.c.post send the request through the
\* client's auth flow (client.py:122, 128).
Outbound(t, method) ==
    LET cl == ContextVar_get(grafana_client, t)
    IN  [by |-> t, client |-> cl.ref, request |-> Send(cl, method, PathOf(method))]

\* GrafanaClient.get, up to the await, called in the request's innermost task.
get(r) ==
    /\ pc[r] = "bound"
    /\ sent[r] = NoRequest
    /\ sent' = [sent EXCEPT ![r] = Outbound(Task(r, depth[r]), "GET")]
    /\ UNCHANGED <<pc, depth, grafana_settings, grafana_client>>
    /\ UNCHANGED <<buildVars, callVars, loopVars, linkVars>>

\* GrafanaClient.post, up to the await.
post(r) ==
    /\ pc[r] = "bound"
    /\ sent[r] = NoRequest
    /\ sent' = [sent EXCEPT ![r] = Outbound(Task(r, depth[r]), "POST")]
    /\ UNCHANGED <<pc, depth, grafana_settings, grafana_client>>
    /\ UNCHANGED <<buildVars, callVars, loopVars, linkVars>>

\* The awaited response arrives and get / post return or raise
\* (client.py:123-125, 129-131): the facade call is over.
response(r) ==
    /\ sent[r] # NoRequest
    /\ sent' = [sent EXCEPT ![r] = NoRequest]
    /\ UNCHANGED <<pc, depth, grafana_settings, grafana_client>>
    /\ UNCHANGED <<buildVars, callVars, loopVars, linkVars>>

\* The request completes: its task ends and the task's context goes with it.
Complete(r) ==
    /\ pc[r] = "bound"
    /\ sent[r] = NoRequest
    /\ depth[r] = 0
    /\ pc' = [pc EXCEPT ![r] = "done"]
    /\ grafana_settings' = discard_context(grafana_settings, r)
    /\ grafana_client' = discard_context(grafana_client, r)
    /\ UNCHANGED <<depth, sent>>
    /\ UNCHANGED <<buildVars, callVars, loopVars, linkVars>>

Next ==
    \E r \in Requests :
        \/ Accept(r)
        \/ Bind(r)
        \/ Spawn(r)
        \/ Join(r)
        \/ get(r)
        \/ post(r)
        \/ response(r)
        \/ Complete(r)

Spec == Init /\ [][Next]_vars

----------------------------------------------------------------------------
(* SpecBuild: the two construction paths on drawn inputs *)

OptTokens == {None, "t1", "t2"}
Urls == {"https://grafana.example"}

BuildInit ==
    /\ args \in { GrafanaSettings(u, k, a, i) :
                    u \in Urls, k \in OptTokens, a \in OptTokens, i \in OptTokens }
    /\ how = "none"
    /\ client = NoClient
    /\ request = NoRequest
    /\ nsent = 0

\* GrafanaClient(url, api_key=..., access_token=..., id_token=...)
by_value ==
    /\ how = "none"
    /\ client' = GrafanaClient_init(args.url, args.api_key, args.access_token, args.id_token)
    /\ how' = "by_value"
    /\ UNCHANGED <<args, request, nsent>>
    /\ UNCHANGED <<reqVars, callVars, loopVars, linkVars>>

\* GrafanaClient.from_settings(settings)
by_settings ==
    /\ how = "none"
    /\ client' = from_settings(args)
    /\ how' = "from_settings"
    /\ UNCHANGED <<args, request, nsent>>
    /\ UNCHANGED <<reqVars, callVars, loopVars, linkVars>>

\* client.get(path)
built_get ==
    /\ IsClient(client)
    /\ nsent < MaxSends
    /\ request' = Send(client, "GET", PathOf("GET"))
    /\ nsent' = nsent + 1
    /\ UNCHANGED <<args, how, client>>
    /\ UNCHANGED <<reqVars, callVars, loopVars, linkVars>>

\* client.post(path, json)
built_post ==
    /\ IsClient(client)
    /\ nsent < MaxSends
    /\ request' = Send(client, "POST", PathOf("POST"))
    /\ nsent' = nsent + 1
    /\ UNCHANGED <<args, how, client>>
    /\ UNCHANGED <<reqVars, callVars, loopVars, linkVars>>

InitBuild == ReqInit /\ BuildInit /\ CallIdle /\ LoopIdle /\ LinkIdle

NextBuild == by_value \/ by_settings \/ built_get \/ built_post

SpecBuild == InitBuild /\ [][NextBuild]_vars

----------------------------------------------------------------------------
(* Responses, and what the verbs make of them *)

MaxBody  == 2        \* longest response body, in bytes
MaxCalls == 2        \* calls made in a row on one client

\* 'A' and the two bytes of U+00E9: 0xC3, which is text only in front of a
\* continuation byte, and 0xA9, which is text only behind a lead byte (on its
\* own it is the Latin-1 copyright sign).
ByteAlphabet == {65, 195, 169}
Bodies   == UNION { [1..n -> ByteAlphabet] : n \in 0..MaxBody }
Statuses == {199, 200, 299, 300, 404, 500}

NoResponse == [kind |-> "NoResponse"]
NoOutcome  == [kind |-> "NoOutcome"]
Response(status, body) == [kind |-> "Response", status |-> status, body |-> body]

\* How a call ends: it raises an exception or returns a value.
Raise(e)  == [raised |-> TRUE,  value |-> e]
Return(v) == [raised |-> FALSE, value |-> v]

GrafanaError(message) == [kind |-> "GrafanaError", message |-> message]
UnicodeDecodeError    == [kind |-> "UnicodeDecodeError"]
ValueError(message)   == [kind |-> "ValueError", message |-> message]
KeyError(key)         == [kind |-> "KeyError", key |-> key]
\* httpx.TransportError: ConnectError, ReadTimeout, ...
TransportErrors == { [kind |-> "TransportError", error |-> e] :
                       e \in {"ConnectError", "ReadTimeout"} }
\* asyncio.CancelledError, raised at the await of a task that is cancelled
CancelledError == [kind |-> "CancelledError"]
Bytes(b) == [kind |-> "bytes", bytes |-> b]

\* httpx.Response.is_success
is_success(r) == r.status >= 200 /\ r.status <= 299

\* httpx.Response.read(): the body.
read(r) == r.body

\* bytes.decode(): strict UTF-8, the text as a sequence of code points.  The
\* one- and two-byte forms are modelled; the lead bytes of the longer forms
\* are not in ByteAlphabet.
RECURSIVE decode(_)
decode(b) ==
    IF b = <<>> THEN [ok |-> TRUE, text |-> <<>>]
    ELSE IF b[1] < 128
    THEN LET rest == decode(Tail(b))
         IN  [ok |-> rest.ok, text |-> IF rest.ok THEN <<b[1]>> \o rest.text ELSE <<>>]
    ELSE IF b[1] >= 194 /\ b[1] <= 223 /\ Len(b) >= 2 /\ b[2] >= 128 /\ b[2] <= 191
    THEN LET rest == decode(Tail(Tail(b)))
             cp   == (b[1] - 192) * 64 + (b[2] - 128)
         IN  [ok |-> rest.ok, text |-> IF rest.ok THEN <<cp>> \o rest.text ELSE <<>>]
    ELSE [ok |-> FALSE, text |-> <<>>]

\* str.encode(): the UTF-8 bytes of a text of code points below U+0800.
RECURSIVE encode(_)
encode(text) ==
    IF text = <<>> THEN <<>>
    ELSE (IF text[1] < 128 THEN <<text[1]>>
          ELSE <<192 + (text[1] \div 64), 128 + (text[1] % 64)>>)
         \o encode(Tail(text))

\* client.py:123-125, what get makes of the response r.
get_returns(r) ==
    IF ~is_success(r)
    THEN (IF decode(read(r)).ok THEN Raise(GrafanaError(decode(read(r)).text))
          ELSE Raise(UnicodeDecodeError))
    ELSE Return(Bytes(read(r)))

\* client.py:129-131, what post makes of the response r.
post_returns(r) ==
    IF ~is_success(r)
    THEN (IF decode(read(r)).ok THEN Raise(GrafanaError(decode(read(r)).text))
          ELSE Raise(UnicodeDecodeError))
    ELSE Return(Bytes(read(r)))

----------------------------------------------------------------------------
(* Outbound requests of a call *)

\* params=None and an empty params dict both give a request without a query
\* string; json is absent on a GET.
NoParams == <<>>
NoJson   == [kind |-> "NoJson"]

\* What a method of the client sets out to do: one self.get, one self.post, or
\* raise before reaching either.
GetPlan(path, params) ==
    [verb |-> "get", path |-> path, params |-> params, json |-> NoJson,
     error |-> NoOutcome]
PostPlan(path, json) ==
    [verb |-> "post", path |-> path, params |-> NoParams, json |-> json,
     error |-> NoOutcome]
RaisePlan(e) ==
    [verb |-> "none", path |-> "", params |-> NoParams, json |-> NoJson,
     error |-> e]

\* The request self.c.get(path, params=params) / self.c.post(path, json=json)
\* builds.
build_request(cl, plan) ==
    [kind |-> "Request",
     method |-> IF plan.verb = "get" THEN "GET" ELSE "POST",
     base_url |-> cl.c.base_url, path |-> plan.path,
     params |-> plan.params, json |-> plan.json, headers |-> NoHeaders]

Mut_authed_first_only(cl, req) ==
    [request |-> auth_flow(cl.c.auth, req),
     client  |-> [cl EXCEPT !.c.auth = NoAuth]]

\* httpx passes the request through the client's auth flow, which has the auth
\* object and the request in its hands: the request as sent, and the client
\* as it is afterwards.
authed(cl, req) ==
    [request |-> auth_flow(cl.c.auth, req), client |-> cl]

\* A call that leaves the path it requested behind in the client's base URL.
Mut_start_call_rebased(cl, op, a, plan) ==
    LET out == authed(cl, build_request(cl, plan))
    IN  [client |-> [cl EXCEPT !.c.base_url = @ \o plan.path],
         call |-> [kind |-> "Call", op |-> op, args |-> a, plan |-> plan,
                   sent |-> IF plan.verb = "none" THEN NoRequest ELSE out.request,
                   nreq |-> IF plan.verb = "none" THEN 0 ELSE 1,
                   phase |-> IF plan.verb = "none" THEN "done" ELSE "waiting",
                   response |-> NoResponse, verb |-> NoOutcome,
                   outcome |-> IF plan.verb = "none" THEN Raise(plan.error)
                               ELSE NoOutcome,
                   reported |-> IF plan.verb = "none" THEN 1 ELSE 0]]

\* The call of method op with arguments a, started on client cl.
start_call(cl, op, a, plan) ==
    IF plan.verb = "none"
    THEN [client |-> cl,
          call |-> [kind |-> "Call", op |-> op, args |-> a, plan |-> plan,
                    sent |-> NoRequest, nreq |-> 0, phase |-> "done",
                    response |-> NoResponse, verb |-> NoOutcome,
                    outcome |-> Raise(plan.error), reported |-> 1]]
    ELSE LET out == authed(cl, build_request(cl, plan))
         IN  [client |-> out.client,
              call |-> [kind |-> "Call", op |-> op, args |-> a, plan |-> plan,
                        sent |-> out.request, nreq |-> 1, phase |-> "waiting",
                        response |-> NoResponse, verb |-> NoOutcome,
                        outcome |-> NoOutcome, reported |-> 0]]

\* "return await self.get(...)" / "return await self.post(...)": the method
\* ends as its verb ends.
return_await(outcome) == outcome

Mut_on_response_retry(c, r) ==
    IF ~is_success(r) /\ c.nreq < 2
    THEN [c EXCEPT !.nreq = @ + 1]
    ELSE [c EXCEPT !.phase = "done", !.response = r,
                   !.verb = get_returns(r), !.outcome = get_returns(r),
                   !.reported = 1]

\* The awaited self.c.get / self.c.post of call c is answered with response r.
on_response(c, r) ==
    LET v == IF c.plan.verb = "get" THEN get_returns(r) ELSE post_returns(r)
    IN  [c EXCEPT !.phase = "done", !.response = r, !.verb = v,
                  !.outcome = return_await(v), !.reported = 1]

Mut_on_transport_error_wrapped(c, e) ==
    [c EXCEPT !.phase = "done", !.response = e,
              !.verb = Raise(GrafanaError(<<>>)),
              !.outcome = Raise(GrafanaError(<<>>)), !.reported = 1]

\* The awaited self.c.get / self.c.post of call c raises the transport error
\* e: neither verb catches anything.
on_transport_error(c, e) ==
    [c EXCEPT !.phase = "done", !.response = e, !.verb = Raise(e),
              !.outcome = return_await(Raise(e)), !.reported = 1]

\* A verb that swallows the cancellation and returns an empty body.
Mut_on_cancelled_swallowed(c) ==
    [c EXCEPT !.phase = "done", !.response = CancelledError,
              !.verb = Return(Bytes(<<>>)), !.outcome = Return(Bytes(<<>>)),
              !.reported = 1]

\* The task awaiting self.c.get / self.c.post of call c is cancelled: httpx
\* closes the connection in flight and the await raises CancelledError, which
\* neither verb catches.
on_cancelled(c) ==
    [c EXCEPT !.phase = "done", !.response = CancelledError,
              !.verb = Raise(CancelledError),
              !.outcome = return_await(Raise(CancelledError)), !.reported = 1]

----------------------------------------------------------------------------
(* SpecFacade: calls on one client *)

Clients ==
    { GrafanaClient_init("https://grafana.example", k, a, i) :
        k \in {None, "key"}, a \in {None, "acc"}, i \in {None, "idt"} }

FacadeInit ==
    /\ gc \in Clients
    /\ call = NoCall
    /\ ncalls = 0
    /\ failed = FALSE

Finished == IF call = NoCall THEN FALSE ELSE call.phase = "done"
InFlight == IF call = NoCall THEN FALSE ELSE call.phase = "waiting"

\* The last call ended with the cancellation of its task.
Cancelled ==
    IF Finished THEN call.response.kind = "CancelledError" ELSE FALSE

\* A call may start when none is in progress; a cancelled task makes no
\* further call.
begin(op, a, plan) ==
    /\ ncalls < MaxCalls
    /\ ~InFlight /\ ~Cancelled
    /\ gc'   = start_call(gc, op, a, plan).client
    /\ call' = start_call(gc, op, a, plan).call
    /\ ncalls' = ncalls + 1
    /\ failed' = (failed \/ (IF Finished THEN call.outcome.raised ELSE FALSE))

Paths == {"/api/datasources", "/api/ds/query"}

\* await client.get(path)
call_get ==
    /\ \E path \in Paths :
         begin("get", [path |-> path], GetPlan(path, NoParams))
    /\ UNCHANGED <<reqVars, buildVars, loopVars, linkVars>>

\* await client.post(path, json)
call_post ==
    /\ \E path \in Paths :
         begin("post", [path |-> path], PostPlan(path, [kind |-> "json"]))
    /\ UNCHANGED <<reqVars, buildVars, loopVars, linkVars>>

\* Grafana answers the request in flight.
respond ==
    /\ InFlight
    /\ \E status \in Statuses, body \in Bodies :
         call' = on_response(call, Response(status, body))
    /\ UNCHANGED <<gc, ncalls, failed>>
    /\ UNCHANGED <<reqVars, buildVars, loopVars, linkVars>>

\* The request in flight gets no answer: connection refused, timeout, ...
transport_error ==
    /\ InFlight
    /\ \E e \in TransportErrors : call' = on_transport_error(call, e)
    /\ UNCHANGED <<gc, ncalls, failed>>
    /\ UNCHANGED <<reqVars, buildVars, loopVars, linkVars>>

----------------------------------------------------------------------------
(* Python values in params and json *)

\* A dict is the sequence of its items in insertion order.  The values are
\* tagged with their Python type.
NoneValue  == [py |-> "None"]
StrValue(x) == [py |-> "str", str |-> x]
IntValue(n) == [py |-> "int", int |-> n]
ListValue(l) == [py |-> "list", list |-> l]
Item(k, v) == [key |-> k, value |-> v]

\* k in d
HasKey(d, k) == \E i \in 1..Len(d) : d[i].key = k
\* d[k], for a key d has
GetItem(d, k) == d[CHOOSE i \in 1..Len(d) : d[i].key = k].value
\* del d[k]
DelItem(d, k) == SelectSeq(d, LAMBDA it : it.key # k)
\* d[k] = v, for a key d does not have yet
SetItem(d, k, v) == Append(d, Item(k, v))

\* httpx renders a primitive value with str().
primitive_value_to_str(v) ==
    CASE v.py = "str"  -> v.str
      [] v.py = "int"  -> ToString(v.int)
      [] OTHER         -> ""

\* The query string httpx makes of params: the items in order, a list value
\* giving one entry per element, in order, under the same key.
RECURSIVE QueryParams(_)
QueryParams(d) ==
    IF d = <<>> THEN <<>>
    ELSE (IF d[1].value.py = "list"
          THEN [i \in 1..Len(d[1].value.list) |->
                  <<d[1].key, primitive_value_to_str(d[1].value.list[i])>>]
          ELSE << <<d[1].key, primitive_value_to_str(d[1].value)>> >>)
         \o QueryParams(Tail(d))

----------------------------------------------------------------------------
(* datetime, and the double-precision arithmetic of client.py:214-215 *)

\* A natural number of any size is the sequence of its bits, lowest first,
\* without leading zeros; zero is <<>>.
RECURSIVE Bits(_)
Bits(n) == IF n = 0 THEN <<>> ELSE <<n % 2>> \o Bits(n \div 2)

\* b without its leading zeros
Trim(b) ==
    LET ones == { i \in 1..Len(b) : b[i] = 1 }
    IN  IF ones = {} THEN <<>>
        ELSE SubSeq(b, 1, CHOOSE i \in ones : \A j \in ones : j <= i)

\* Multiplication and division work on limbs of 10 bits, lowest first.
BitAt(b, i) == IF i <= Len(b) THEN b[i] ELSE 0
Limbs(b) ==
    [j \in 1..((Len(b) + 9) \div 10) |->
        LET o == 10 * (j - 1)
        IN  BitAt(b, o + 1) + 2 * BitAt(b, o + 2) + 4 * BitAt(b, o + 3)
            + 8 * BitAt(b, o + 4) + 16 * BitAt(b, o + 5) + 32 * BitAt(b, o + 6)
            + 64 * BitAt(b, o + 7) + 128 * BitAt(b, o + 8)
            + 256 * BitAt(b, o + 9) + 512 * BitAt(b, o + 10)]
FromLimbs(l) ==
    Trim([i \in 1..(10 * Len(l)) |->
            (l[((i - 1) \div 10) + 1]
               \div <<1, 2, 4, 8, 16, 32, 64, 128, 256, 512>>[((i - 1) % 10) + 1])
            % 2])

RECURSIVE LimbsOf(_)
LimbsOf(n) == IF n = 0 THEN <<>> ELSE <<n % 1024>> \o LimbsOf(n \div 1024)

RECURSIVE MulAddLimbs(_, _, _)
MulAddLimbs(l, k, carry) ==
    IF l = <<>> THEN LimbsOf(carry)
    ELSE LET v == l[1] * k + carry
         IN  <<v % 1024>> \o MulAddLimbs(Tail(l), k, v \div 1024)

RECURSIVE DivModLimbs(_, _)
DivModLimbs(l, d) ==
    IF l = <<>> THEN [q |-> <<>>, r |-> 0]
    ELSE LET hi == DivModLimbs(Tail(l), d)
             v  == 1024 * hi.r + l[1]
         IN  [q |-> <<v \div d>> \o hi.q, r |-> v % d]

\* b * k + carry, for k and carry below 2^21
MulAdd(b, k, carry) == FromLimbs(MulAddLimbs(Limbs(b), k, carry))

\* The quotient and the remainder of b by a d below 2^20.
DivMod(b, d) ==
    LET x == DivModLimbs(Limbs(b), d) IN [q |-> FromLimbs(x.q), r |-> x.r]

\* b * 2^n and floor(b / 2^n)
ShiftLeft(b, n)  == IF b = <<>> THEN <<>> ELSE [i \in 1..n |-> 0] \o b
ShiftRight(b, n) == IF n >= Len(b) THEN <<>> ELSE SubSeq(b, n + 1, Len(b))

\* A double is m * 2^e with a significand m of at most MantissaBits bits.
MantissaBits == 53
Double(m, e) == [m |-> m, e |-> e]

\* The double nearest to (b + f) * 2^e, ties to even, where 0 <= f < 1 and
\* sticky says whether f > 0; b has more than MantissaBits bits or sticky is
\* FALSE.
RoundNearestEven(b, sticky, e) ==
    IF Len(b) <= MantissaBits THEN Double(b, e)
    ELSE LET drop  == Len(b) - MantissaBits
             m     == ShiftRight(b, drop)
             guard == b[drop] = 1
             rest  == sticky \/ \E i \in 1..(drop - 1) : b[i] = 1
             up    == guard /\ (rest \/ m[1] = 1)
         IN  Double(IF up THEN MulAdd(m, 1, 1) ELSE m, e + drop)

\* int / int, Python's true division: the double nearest to n / d, rounded
\* from a quotient with 60 bits after the point.
TrueDivide(n, d) ==
    LET qr == DivMod(ShiftLeft(n, 60), d)
    IN  RoundNearestEven(qr.q, qr.r # 0, 0 - 60)

\* float * int, for a small int: the double nearest to the product.
Multiply(x, k) == RoundNearestEven(MulAdd(x.m, k, 0), FALSE, x.e)

\* math.floor of a double that is not negative
floor(x) == IF x.e >= 0 THEN ShiftLeft(x.m, x.e) ELSE ShiftRight(x.m, 0 - x.e)

\* str of an int that is not negative: its decimal digits
RECURSIVE str(_)
str(b) ==
    LET qr == DivMod(b, 10)
    IN  IF qr.q = <<>> THEN ToString(qr.r) ELSE str(qr.q) \o ToString(qr.r)

\* datetime(year, month, day, hour, minute, second, microsecond,
\*          tzinfo=timezone.utc)
datetime(year, month, day, hour, minute, second, microsecond) ==
    [year |-> year, month |-> month, day |-> day, hour |-> hour,
     minute |-> minute, second |-> second, microsecond |-> microsecond]

is_leap(year) == year % 4 = 0 /\ (year % 100 # 0 \/ year % 400 = 0)
days_before_year(year) ==
    LET y == year - 1 IN y * 365 + y \div 4 - y \div 100 + y \div 400
days_before_month(year, month) ==
    <<0, 31, 59, 90, 120, 151, 181, 212, 243, 273, 304, 334>>[month]
    + (IF month > 2 /\ is_leap(year) THEN 1 ELSE 0)
\* date.toordinal()
toordinal(dt) ==
    days_before_year(dt.year) + days_before_month(dt.year, dt.month) + dt.day

\* The seconds from the epoch to dt, without the microseconds: the days and
\* seconds of the timedelta dt - datetime(1970, 1, 1, tzinfo=timezone.utc).
EpochOrdinal == 719163
epoch_seconds(dt) ==
    (toordinal(dt) - EpochOrdinal) * 86400
    + dt.hour * 3600 + dt.minute * 60 + dt.second

\* dt.timestamp() of an aware datetime: (dt - epoch).total_seconds(), the
\* microseconds of the difference divided by 10**6.
timestamp(dt) ==
    TrueDivide(MulAdd(Bits(epoch_seconds(dt)), 1000000, dt.microsecond), 1000000)

\* str(math.floor(dt.timestamp() * 1000))
millis(dt) == str(floor(Multiply(timestamp(dt), 1000)))

----------------------------------------------------------------------------
(* The endpoint methods: client.py:133-283 *)

\* An endpoint method is called as the first call on its client.
first_call(op, a, plan) ==
    /\ call = NoCall
    /\ begin(op, a, plan)

\* client.py:133-134
list_datasources == GetPlan("/api/datasources", NoParams)

call_list_datasources ==
    /\ first_call("list_datasources", [none |-> None], list_datasources)
    /\ UNCHANGED <<reqVars, buildVars, loopVars, linkVars>>

OptUids  == {None, "ds1"}
OptNames == {None, "prom"}

\* A lookup that formats whatever name it was given into the path.
Mut_get_datasource_by_name(uid, name) ==
    IF uid # None
    THEN GetPlan("/api/datasources/uid/" \o uid, NoParams)
    ELSE GetPlan("/api/datasources/name/" \o name, NoParams)

\* A lookup that prefers the name to the uid.
Mut_get_datasource_name_first(uid, name) ==
    IF name # None
    THEN GetPlan("/api/datasources/name/" \o name, NoParams)
    ELSE IF uid # None
    THEN GetPlan("/api/datasources/uid/" \o uid, NoParams)
    ELSE RaisePlan(ValueError("uid or name must be provided"))

\* client.py:136-144
get_datasource(uid, name) ==
    IF uid # None
    THEN GetPlan("/api/datasources/uid/" \o uid, NoParams)
    ELSE IF name # None
    THEN GetPlan("/api/datasources/name/" \o name, NoParams)
    ELSE RaisePlan(ValueError("uid or name must be provided"))

call_get_datasource ==
    /\ \E uid \in OptUids, name \in OptNames :
         first_call("get_datasource", [uid |-> uid, name |-> name],
                    get_datasource(uid, name))
    /\ UNCHANGED <<reqVars, buildVars, loopVars, linkVars>>

\* client.py:155-156
get_dashboard(dashboard_uid) ==
    GetPlan("/api/dashboards/uid/" \o dashboard_uid, NoParams)

call_get_dashboard ==
    /\ first_call("get_dashboard", [dashboard_uid |-> "db1"], get_dashboard("db1"))
    /\ UNCHANGED <<reqVars, buildVars, loopVars, linkVars>>

\* An argument object of one of the pydantic models of grafana_types, and
\* its model_dump(): the dict of its fields.
Arguments(model, fields) == [model |-> model, fields |-> fields]
model_dump(arguments) == arguments.fields

IncidentsService == "/api/plugins/grafana-incident-app/resources/api/IncidentsService."

\* client.py:159-163
list_incidents(body) ==
    PostPlan(IncidentsService \o "QueryIncidentPreviews", model_dump(body))

call_list_incidents ==
    /\ LET body == Arguments("QueryIncidentPreviewsRequest",
                             <<Item("query", StrValue("isdrill:false"))>>)
       IN  first_call("list_incidents", [body |-> body], list_incidents(body))
    /\ UNCHANGED <<reqVars, buildVars, loopVars, linkVars>>

\* client.py:165-169
create_incident(arguments) ==
    PostPlan(IncidentsService \o "CreateIncident", model_dump(arguments))

call_create_incident ==
    /\ LET arguments == Arguments("CreateIncidentArguments",
                                  <<Item("title", StrValue("disk full"))>>)
       IN  first_call("create_incident", [arguments |-> arguments],
                      create_incident(arguments))
    /\ UNCHANGED <<reqVars, buildVars, loopVars, linkVars>>

\* client.py:171-177
add_activity_to_incident(arguments) ==
    PostPlan("/api/plugins/grafana-incident-app/resources/api/ActivityService.AddActivity",
             model_dump(arguments))

call_add_activity_to_incident ==
    /\ LET arguments == Arguments("AddActivityToIncidentArguments",
                                  <<Item("incidentId", StrValue("7")),
                                    Item("body", StrValue("rebooted"))>>)
       IN  first_call("add_activity_to_incident", [arguments |-> arguments],
                      add_activity_to_incident(arguments))
    /\ UNCHANGED <<reqVars, buildVars, loopVars, linkVars>>

\* client.py:179-186
close_incident(incident_id, summary) ==
    PostPlan(IncidentsService \o "CloseIncident",
             <<Item("incidentID", StrValue(incident_id)),
               Item("summary", StrValue(summary))>>)

call_close_incident ==
    /\ first_call("close_incident", [incident_id |-> "7", summary |-> "fixed"],
                  close_incident("7", "fixed"))
    /\ UNCHANGED <<reqVars, buildVars, loopVars, linkVars>>

Investigations == "/api/plugins/grafana-ml-app/resources/sift/api/v1/investigations"

\* client.py:188-194
create_sift_investigation(arguments) ==
    PostPlan(Investigations, model_dump(arguments))

call_create_sift_investigation ==
    /\ LET arguments == Arguments("CreateSiftInvestigationArguments",
                                  <<Item("name", StrValue("latency"))>>)
       IN  first_call("create_sift_investigation", [arguments |-> arguments],
                      create_sift_investigation(arguments))
    /\ UNCHANGED <<reqVars, buildVars, loopVars, linkVars>>

\* client.py:196-202
get_sift_investigation(investigation_id) ==
    GetPlan(Investigations \o "/" \o investigation_id, NoParams)

call_get_sift_investigation ==
    /\ first_call("get_sift_investigation", [investigation_id |-> "uuid-1"],
                  get_sift_investigation("uuid-1"))
    /\ UNCHANGED <<reqVars, buildVars, loopVars, linkVars>>

\* client.py:204-210
get_sift_analyses(investigation_id) ==
    GetPlan(Investigations \o "/" \o investigation_id \o "/analyses", NoParams)

call_get_sift_analyses ==
    /\ first_call("get_sift_analyses", [investigation_id |-> "uuid-1"],
                  get_sift_analyses("uuid-1"))
    /\ UNCHANGED <<reqVars, buildVars, loopVars, linkVars>>

OptQueries == {None, "cpu"}

\* The search arguments: one optional field, query, absent by default.
SearchDashboardsArguments(query) ==
    [model |-> "SearchDashboardsArguments", query |-> query]

\* arguments.model_dump(exclude_defaults=True): the fields whose value is not
\* the field's default.
model_dump_exclude_defaults(arguments) ==
    IF arguments.query # None
    THEN <<Item("query", StrValue(arguments.query))>>
    ELSE <<>>

\* client.py:146-153
search_dashboards(arguments) ==
    LET params == model_dump_exclude_defaults(arguments)
    IN  IF ~HasKey(params, "query")
        THEN RaisePlan(KeyError("query"))
        ELSE IF GetItem(params, "query") = NoneValue
        THEN GetPlan("/api/search", DelItem(params, "query"))
        ELSE GetPlan("/api/search", params)

call_search_dashboards ==
    /\ \E query \in OptQueries :
         first_call("search_dashboards", [query |-> query],
                    search_dashboards(SearchDashboardsArguments(query)))
    /\ UNCHANGED <<reqVars, buildVars, loopVars, linkVars>>

\* Start and end times of a query: one second and one millisecond after the
\* epoch, the epoch, 2023-11-14T22:13:20.5Z (1700000000.5 s), and
\* 1987-01-08T12:13:42.392Z.
DateTimes ==
    { datetime(1970, 1, 1, 0, 0, 1, 1000), datetime(1970, 1, 1, 0, 0, 0, 0),
      datetime(2023, 11, 14, 22, 13, 20, 500000),
      datetime(1987, 1, 8, 12, 13, 42, 392000) }

EndTimes ==
    { datetime(1970, 1, 1, 0, 0, 0, 0), datetime(2023, 11, 14, 22, 13, 20, 500000) }

\* A per-datasource query object: a datasource reference and a query body.
Query(datasource, body) ==
    [model |-> "Query", datasource |-> datasource, body |-> body]
QueryLists ==
    LET a == Query("prometheus", "up")
        b == Query("loki", "{job=\"app\"}")
    IN  { <<>>, <<a, b>>, <<b, a>> }

\* query_list.dump_python(queries, by_alias=True): the list of the queries'
\* dicts, each under its wire aliases, in the order of the list.
query_list_dump_python(queries) ==
    [i \in 1..Len(queries) |->
        [datasource |-> [uid |-> queries[i].datasource],
         expr |-> queries[i].body]]

\* client.py:212-218
query(from, to, queries) ==
    PostPlan("/api/ds/query",
             [from |-> millis(from), to |-> millis(to),
              queries |-> query_list_dump_python(queries)])

call_query ==
    /\ \E from \in DateTimes, to \in EndTimes, queries \in QueryLists :
         first_call("query", [from |-> from, to |-> to, queries |-> queries],
                    query(from, to, queries))
    /\ UNCHANGED <<reqVars, buildVars, loopVars, linkVars>>

\* Optional arguments of the Prometheus methods: None or a value.
OptLimits  == {NoneValue, IntValue(0), IntValue(10)}
OptMetrics == {NoneValue, StrValue("up")}

\* A label matcher expression; str(m) is the expression.
Selector(expr) == [model |-> "Selector", expr |-> expr]
Selector_str(m) == m.expr
OptMatches ==
    LET a == Selector("up")
        b == Selector("rate(foo[5m])")
    IN  {NoneValue, ListValue(<<>>), ListValue(<<a, b>>), ListValue(<<b, a>>)}

OptStarts == {NoneValue, datetime(2023, 11, 14, 22, 13, 20, 500000)}
OptEnds == {NoneValue, datetime(2024, 1, 5, 0, 0, 0, 0)}

\* Decimal text of n, with zeros in front up to the given width.
RECURSIVE zfill(_, _)
zfill(n, width) ==
    IF width <= 1 THEN ToString(n)
    ELSE zfill(n \div 10, width - 1) \o ToString(n % 10)

\* dt.isoformat() of an aware UTC datetime
isoformat(dt) ==
    zfill(dt.year, 4) \o "-" \o zfill(dt.month, 2) \o "-" \o zfill(dt.day, 2)
    \o "T" \o zfill(dt.hour, 2) \o ":" \o zfill(dt.minute, 2)
    \o ":" \o zfill(dt.second, 2)
    \o (IF dt.microsecond # 0 THEN "." \o zfill(dt.microsecond, 6) ELSE "")
    \o "+00:00"

\* A metadata listing that tests its options for truth.
Mut_metadata_truthy(datasource_uid, limit, limit_per_metric, metric) ==
    LET truthy(v) == v # NoneValue /\ v # IntValue(0)
        p1 == IF truthy(limit) THEN SetItem(<<>>, "limit", limit) ELSE <<>>
        p2 == IF truthy(limit_per_metric)
              THEN SetItem(p1, "limitPerMetric", limit_per_metric) ELSE p1
        p3 == IF truthy(metric) THEN SetItem(p2, "metric", metric) ELSE p2
    IN  GetPlan("/api/datasources/proxy/uid/" \o datasource_uid \o "/api/v1/metadata", p3)

\* client.py:220-236
list_prometheus_metric_metadata(datasource_uid, limit, limit_per_metric, metric) ==
    LET p1 == IF limit # NoneValue THEN SetItem(<<>>, "limit", limit) ELSE <<>>
        p2 == IF limit_per_metric # NoneValue
              THEN SetItem(p1, "limitPerMetric", limit_per_metric) ELSE p1
        p3 == IF metric # NoneValue THEN SetItem(p2, "metric", metric) ELSE p2
    IN  GetPlan("/api/datasources/proxy/uid/" \o datasource_uid \o "/api/v1/metadata", p3)

call_list_prometheus_metric_metadata ==
    /\ \E limit \in OptLimits, limit_per_metric \in OptLimits, metric \in OptMetrics :
         first_call("list_prometheus_metric_metadata",
                    [limit |-> limit, limit_per_metric |-> limit_per_metric,
                     metric |-> metric],
                    list_prometheus_metric_metadata("ds1", limit, limit_per_metric, metric))
    /\ UNCHANGED <<reqVars, buildVars, loopVars, linkVars>>

\* [str(m) for m in matches]
selector_strings(matches) ==
    ListValue([i \in 1..Len(matches.list) |-> StrValue(Selector_str(matches.list[i]))])

\* client.py:238-259
list_prometheus_label_names(datasource_uid, matches, start, end, limit) ==
    LET p1 == IF matches # NoneValue
              THEN SetItem(<<>>, "match[]", selector_strings(matches)) ELSE <<>>
        p2 == IF start # NoneValue
              THEN SetItem(p1, "start", StrValue(isoformat(start))) ELSE p1
        p3 == IF end # NoneValue
              THEN SetItem(p2, "end", StrValue(isoformat(end))) ELSE p2
        p4 == IF limit # NoneValue THEN SetItem(p3, "limit", limit) ELSE p3
    IN  GetPlan("/api/datasources/proxy/uid/" \o datasource_uid \o "/api/v1/labels", p4)

call_list_prometheus_label_names ==
    /\ \E matches \in OptMatches, start \in OptStarts, end \in OptEnds,
          limit \in OptLimits :
         first_call("list_prometheus_label_names",
                    [matches |-> matches, start |-> start, end |-> end,
                     limit |-> limit],
                    list_prometheus_label_names("ds1", matches, start, end, limit))
    /\ UNCHANGED <<reqVars, buildVars, loopVars, linkVars>>

\* A label value listing that sends its selectors joined into one entry.
Mut_label_values_joined(datasource_uid, label_name, matches, start, end, limit) ==
    LET p1 == IF matches # NoneValue
              THEN SetItem(<<>>, "match[]", StrValue("up,rate(foo[5m])")) ELSE <<>>
        p2 == IF start # NoneValue
              THEN SetItem(p1, "start", StrValue(isoformat(start))) ELSE p1
        p3 == IF end # NoneValue
              THEN SetItem(p2, "end", StrValue(isoformat(end))) ELSE p2
        p4 == IF limit # NoneValue THEN SetItem(p3, "limit", limit) ELSE p3
    IN  GetPlan("/api/datasources/proxy/uid/" \o datasource_uid
                  \o "/api/v1/label/" \o label_name \o "/values", p4)

\* client.py:261-283
list_prometheus_label_values(datasource_uid, label_name, matches, start, end, limit) ==
    LET p1 == IF matches # NoneValue
              THEN SetItem(<<>>, "match[]", selector_strings(matches)) ELSE <<>>
        p2 == IF start # NoneValue
              THEN SetItem(p1, "start", StrValue(isoformat(start))) ELSE p1
        p3 == IF end # NoneValue
              THEN SetItem(p2, "end", StrValue(isoformat(end))) ELSE p2
        p4 == IF limit # NoneValue THEN SetItem(p3, "limit", limit) ELSE p3
    IN  GetPlan("/api/datasources/proxy/uid/" \o datasource_uid
                  \o "/api/v1/label/" \o label_name \o "/values", p4)

call_list_prometheus_label_values ==
    /\ \E matches \in OptMatches, start \in OptStarts, end \in OptEnds,
          limit \in OptLimits :
         first_call("list_prometheus_label_values",
                    [matches |-> matches, start |-> start, end |-> end,
                     limit |-> limit],
                    list_prometheus_label_values("ds1", "job", matches, start, end, limit))
    /\ UNCHANGED <<reqVars, buildVars, loopVars, linkVars>>

\* The inbound request is cancelled while its call waits for Grafana.
cancel ==
    /\ InFlight
    /\ call' = on_cancelled(call)
    /\ UNCHANGED <<gc, ncalls, failed>>
    /\ UNCHANGED <<reqVars, buildVars, loopVars, linkVars>>

\* Next to gc there is a second client, built by value for another identity,
\* on which no call is made.
Bystander ==
    /\ args = GrafanaSettings("https://other.example", None, "acc2", "idt2")
    /\ how = "by_value"
    /\ client = GrafanaClient_init(args.url, args.api_key, args.access_token,
                                   args.id_token)
    /\ request = NoRequest
    /\ nsent = 0

InitFacade == ReqInit /\ Bystander /\ FacadeInit /\ LoopIdle /\ LinkIdle

NextFacade ==
    \/ call_get \/ call_post
    \/ call_list_datasources \/ call_get_datasource
    \/ call_search_dashboards \/ call_get_dashboard
    \/ call_list_incidents \/ call_create_incident
    \/ call_add_activity_to_incident \/ call_close_incident
    \/ call_create_sift_investigation \/ call_get_sift_investigation
    \/ call_get_sift_analyses
    \/ call_query
    \/ call_list_prometheus_metric_metadata
    \/ call_list_prometheus_label_names \/ call_list_prometheus_label_values
    \/ respond \/ transport_error \/ cancel

SpecFacade == InitFacade /\ [][NextFacade]_vars

----------------------------------------------------------------------------
(* Claims on request handling (Spec) *)

TasksOf(r) == {Task(r, d) : d \in 0..depth[r]}

HeaderValues(req) == {req.headers[h] : h \in DOMAIN req.headers}

\* C1: while requests of different identities are in flight, every read of
\* the current client inside a request, at any nesting depth, returns the
\* client bound for that request, and no outbound request of request r
\* carries a credential value of another request (or of the server itself).
C1_OwnClientOnly ==
    \A r \in Requests :
        /\ pc[r] = "bound" =>
             \A t \in TasksOf(r) : ContextVar_get(grafana_client, t).ref = r
        /\ sent[r] # NoRequest =>
             /\ sent[r].client = r
             /\ \A q \in (Requests \cup {0}) \ {r} :
                    HeaderValues(sent[r].request) \cap CredentialValues(q) = {}

\* Two requests in flight at once, both from nested tasks, one carrying a
\* Bearer credential and the other an access token.
C1_Witness ==
    \E r, q \in Requests :
        /\ r # q
        /\ sent[r] # NoRequest /\ sent[q] # NoRequest
        /\ sent[r].by[2] >= 1 /\ sent[q].by[2] >= 1
        /\ "Authorization" \in DOMAIN sent[r].request.headers
        /\ "X-Access-Token" \in DOMAIN sent[q].request.headers

\* C2: the binding is per request: the import-time binding of the main
\* context is never replaced, each request in handling has bound a client of
\* its own built from its own settings, and no client is bound for or used by
\* two requests.
C2_PerRequestBinding ==
    /\ ContextVar_get(grafana_client, Main).ref = 0
    /\ \A r \in Requests : pc[r] = "bound" =>
         LET s == ContextVar_get(grafana_settings, Task(r, 0))
         IN  /\ s \in SettingsOf(r)
             /\ ContextVar_get(grafana_client, Task(r, 0)) = Object(from_settings(s), r)
    /\ \A r, q \in Requests :
         (r # q /\ pc[r] = "bound" /\ pc[q] = "bound") =>
            /\ \A t \in TasksOf(r), u \in TasksOf(q) :
                  ContextVar_get(grafana_client, t).ref
                     # ContextVar_get(grafana_client, u).ref
            /\ (sent[r] # NoRequest /\ sent[q] # NoRequest)
                  => sent[r].client # sent[q].client

\* Two requests bound at once, with different credential variants, one of
\* them with a call in flight.
C2_Witness ==
    \E r, q \in Requests :
        /\ r # q /\ pc[r] = "bound" /\ pc[q] = "bound"
        /\ ContextVar_get(grafana_client, Task(r, 0)).c.auth.kind = "BearerAuth"
        /\ ContextVar_get(grafana_client, Task(q, 0)).c.auth.kind
              = "AccessTokenOnBehalfOfAuth"
        /\ sent[r] # NoRequest

\* C3: once a request has completed, its binding is gone: its tasks' contexts
\* no longer exist, and no living task (the main task, a request accepted
\* before or after, any nested task) reads the client that was bound for it.
C3_BindingDiscarded ==
    \A r \in Requests : pc[r] = "done" =>
        \A t \in Tasks :
            /\ t[1] = r => grafana_client[t] = NoContext
            /\ Alive(t) => ContextVar_get(grafana_client, t).ref # r

\* A request has completed while another, which had not yet bound its client,
\* goes on to bind and call.
C3_Witness ==
    \E r, q \in Requests :
        /\ pc[r] = "done"
        /\ pc[q] = "bound" /\ depth[q] >= 1 /\ sent[q] # NoRequest

----------------------------------------------------------------------------
(* Claims on construction (SpecBuild) *)

Built == how # "none"

Given(x) == x # None

BearerHeaders(api_key) == "Authorization" :> ("Bearer " \o api_key)

AccessTokenHeaders(access_token) == "X-Access-Token" :> access_token

OnBehalfOfHeaders(access_token, id_token) ==
    ("X-Access-Token" :> access_token) @@ ("X-Grafana-Id" :> id_token)

\* C4: from_settings gives the ServiceAccountToken strategy whenever an API
\* key is set, whatever the access token and identity token, and every
\* request of the client carries Authorization: Bearer <api key>.
C4_ApiKeyFirst ==
    (how = "from_settings" /\ Given(args.api_key)) =>
        /\ IsClient(client)
        /\ client.c.auth = BearerAuth(args.api_key)
        /\ request # NoRequest =>
             CredentialsOf(request) = BearerHeaders(args.api_key)

\* C5: from_settings gives the AccessToken strategy for an access token with
\* no identity token and no API key, and every request carries
\* X-Access-Token: <access token>.
C5_AccessTokenOnly ==
    (how = "from_settings" /\ Given(args.access_token)
        /\ ~Given(args.id_token) /\ ~Given(args.api_key)) =>
        /\ IsClient(client)
        /\ client.c.auth = AccessTokenAuth(args.access_token)
        /\ request # NoRequest =>
             CredentialsOf(request) = AccessTokenHeaders(args.access_token)

\* C6: from_settings gives the AccessTokenOnBehalfOf strategy for an access
\* token with an identity token and no API key, and every request carries
\* X-Access-Token and X-Grafana-Id with those two values.
C6_OnBehalfOf ==
    (how = "from_settings" /\ Given(args.access_token)
        /\ Given(args.id_token) /\ ~Given(args.api_key)) =>
        /\ IsClient(client)
        /\ client.c.auth = AccessTokenOnBehalfOfAuth(args.access_token, args.id_token)
        /\ request # NoRequest =>
             CredentialsOf(request) = OnBehalfOfHeaders(args.access_token, args.id_token)

\* Such a client has sent more than one request.
C6_Witness ==
    /\ how = "from_settings" /\ Given(args.access_token)
    /\ Given(args.id_token) /\ ~Given(args.api_key)
    /\ args.access_token # args.id_token
    /\ nsent >= 2 /\ request # NoRequest

\* Construction, by either path, yields a client and sends nothing.
ConstructionIsLocal ==
    (how = "none" /\ how' # "none") =>
        /\ IsClient(client')
        /\ request' = request /\ nsent' = nsent
        /\ sent' = sent

ActiveVariants(req) ==
    LET names == DOMAIN req.headers
    IN  (IF "Authorization" \in names THEN {"ServiceAccountToken"} ELSE {})
        \cup (IF "X-Access-Token" \in names /\ "X-Grafana-Id" \notin names
              THEN {"AccessToken"} ELSE {})
        \cup (IF "X-Grafana-Id" \in names THEN {"AccessTokenOnBehalfOf"} ELSE {})

VariantOf(auth) ==
    CASE auth.kind = "BearerAuth"                -> {"ServiceAccountToken"}
      [] auth.kind = "AccessTokenAuth"           -> {"AccessToken"}
      [] auth.kind = "AccessTokenOnBehalfOfAuth" -> {"AccessTokenOnBehalfOf"}
      [] OTHER                                   -> {}

C9_ByValueOrder ==
    (how = "by_value" /\ (Given(args.api_key) \/ Given(args.access_token))) =>
        /\ IsClient(client)
        /\ Given(args.api_key) =>
             /\ client.c.auth = BearerAuth(args.api_key)
             /\ request # NoRequest =>
                  CredentialsOf(request) = BearerHeaders(args.api_key)
        /\ (~Given(args.api_key) /\ Given(args.id_token)) =>
             /\ client.c.auth =
                  AccessTokenOnBehalfOfAuth(args.access_token, args.id_token)
             /\ request # NoRequest =>
                  CredentialsOf(request) =
                     OnBehalfOfHeaders(args.access_token, args.id_token)
        /\ (~Given(args.api_key) /\ ~Given(args.id_token)) =>
             /\ client.c.auth = AccessTokenAuth(args.access_token)
             /\ request # NoRequest =>
                  CredentialsOf(request) = AccessTokenHeaders(args.access_token)

\* All three inputs given, the API key different from the access token: a
\* request has gone out.
C9_Witness ==
    /\ how = "by_value"
    /\ Given(args.api_key) /\ Given(args.access_token) /\ Given(args.id_token)
    /\ args.api_key # args.access_token
    /\ request # NoRequest

\* C10: a request carries exactly the credential headers of the client's
\* variant: Bearer only Authorization, AccessToken only X-Access-Token,
\* on-behalf-of X-Access-Token and X-Grafana-Id and no Authorization.
C10_ExactHeaders ==
    (IsClient(client) /\ request # NoRequest) =>
        LET auth == client.c.auth
        IN  /\ auth.kind = "BearerAuth" =>
                 CredentialsOf(request) = BearerHeaders(auth.api_key)
            /\ auth.kind = "AccessTokenAuth" =>
                 CredentialsOf(request) = AccessTokenHeaders(auth.access_token)
            /\ auth.kind = "AccessTokenOnBehalfOfAuth" =>
                 /\ CredentialsOf(request) =
                      OnBehalfOfHeaders(auth.access_token, auth.id_token)
                 /\ "Authorization" \notin DOMAIN request.headers

\* An on-behalf-of client, with different access and identity tokens, has
\* sent a request.
C10_Witness ==
    /\ IsClient(client) /\ request # NoRequest
    /\ client.c.auth.kind = "AccessTokenOnBehalfOfAuth"
    /\ client.c.auth.access_token # client.c.auth.id_token

----------------------------------------------------------------------------
(* Claims on the calls of one client (SpecFacade) *)

\* The request of the call, if it has issued one.
HasSent == IF call = NoCall THEN FALSE ELSE call.sent # NoRequest

\* The credential headers that belong to an auth object.
HeadersOf(auth) ==
    CASE auth.kind = "BearerAuth" -> BearerHeaders(auth.api_key)
      [] auth.kind = "AccessTokenAuth" -> AccessTokenHeaders(auth.access_token)
      [] auth.kind = "AccessTokenOnBehalfOfAuth" ->
             OnBehalfOfHeaders(auth.access_token, auth.id_token)
      [] OTHER -> NoHeaders

\* C11: every outbound request of a client carries the credential headers of
\* the client's variant, the first request and every later one, also after an
\* earlier call failed; apart from its headers the request is the one the
\* verb built; and the client, with the credentials it holds, is the same
\* before and after every request.
C11_HeadersOnEveryRequest ==
    /\ [][gc' = gc]_vars
    /\ [](HasSent =>
            /\ call.sent.headers = HeadersOf(gc.c.auth)
            /\ [call.sent EXCEPT !.headers = NoHeaders] = build_request(gc, call.plan))

\* The second request of a Bearer client is in flight after its first call
\* failed.
C11_Witness ==
    /\ ncalls = 2 /\ failed /\ InFlight
    /\ gc.c.auth.kind = "BearerAuth"
    /\ "Authorization" \in DOMAIN call.sent.headers

\* The call has ended on a response (not on a transport error).
Answered ==
    IF Finished THEN call.response.kind = "Response" ELSE FALSE

\* C12: get and post fail with GrafanaError for every response whose status
\* is not 2xx (1xx, 3xx, 4xx and 5xx alike), the error's message being the
\* response body as text, verbatim, and no bytes being returned; for every
\* 2xx response they return the body bytes unchanged.
C12_StatusDecides ==
    (Answered /\ call.op \in {"get", "post"}) =>
        IF call.response.status >= 200 /\ call.response.status <= 299
        THEN call.outcome = Return(Bytes(call.response.body))
        ELSE /\ call.outcome.raised
             /\ call.outcome.value.kind = "GrafanaError"
             /\ encode(call.outcome.value.message) = call.response.body

\* C13: get_datasource called with neither a uid nor a name fails with a
\* ValueError, a kind distinct from GrafanaError, without issuing any outbound
\* request; called with a uid or a name it issues exactly one GET.
C13_GetDatasourceNeedsIdentifier ==
    (call # NoCall /\ call.op = "get_datasource") =>
        IF call.args.uid = None /\ call.args.name = None
        THEN /\ call.phase = "done"
             /\ call.outcome.raised
             /\ call.outcome.value.kind = "ValueError"
             /\ call.outcome.value.kind # GrafanaError(<<>>).kind
             /\ call.nreq = 0 /\ call.sent = NoRequest
        ELSE /\ call.nreq = 1
             /\ call.sent.method = "GET"

\* get_datasource() has been called on a client that holds an API key.
C13_Witness ==
    /\ Finished
    /\ call.op = "get_datasource"
    /\ call.args = [uid |-> None, name |-> None]
    /\ gc.c.auth.kind = "BearerAuth"

\* The keys of the query string of the call's request.
SentKeys == { QueryParams(call.sent.params)[i][1] :
                i \in 1..Len(QueryParams(call.sent.params)) }

\* C14: search_dashboards issues a GET to /api/search; when the query argument
\* is absent the call gets as far as issuing that request, without a query
\* parameter; when it is present the request carries it verbatim.
C14_SearchQueryParam ==
    (call # NoCall /\ call.op = "search_dashboards") =>
        /\ call.nreq = 1
        /\ call.sent # NoRequest
        /\ call.sent.method = "GET" /\ call.sent.path = "/api/search"
        /\ IF call.args.query = None
           THEN "query" \notin SentKeys
           ELSE QueryParams(call.sent.params) = << <<"query", call.args.query>> >>

\* floor(timestamp_seconds * 1000) of a time, in exact arithmetic, as decimal
\* text: the whole seconds times 1000 plus the whole milliseconds.
ExactMillis(dt) ==
    str(MulAdd(Bits(epoch_seconds(dt)), 1000, dt.microsecond \div 1000))

\* C15: query posts to /api/ds/query a body whose from and to are the decimal
\* strings of floor(timestamp_seconds * 1000), for every start and end time,
\* and whose queries are those of the caller, in the caller's order.
C15_QueryTimeRange ==
    (call # NoCall /\ call.op = "query") =>
        /\ call.sent.method = "POST" /\ call.sent.path = "/api/ds/query"
        /\ call.sent.json.from = ExactMillis(call.args.from)
        /\ call.sent.json.to = ExactMillis(call.args.to)
        /\ call.sent.json.queries = query_list_dump_python(call.args.queries)

\* The entries of the query string of the call's request, and those under
\* one key.
SentParams == QueryParams(call.sent.params)
SentUnder(key) == SelectSeq(SentParams, LAMBDA kv : kv[1] = key)

LabelOps == {"list_prometheus_label_names", "list_prometheus_label_values"}

\* C16: list_prometheus_label_names and list_prometheus_label_values send
\* the matches as repeated match[] entries, one per selector, in the order
\* given, each with the selector's exact string; when matches is not given
\* they send no match[] entry.
C16_MatchEntries ==
    (call # NoCall /\ call.op \in LabelOps) =>
        IF call.args.matches = NoneValue
        THEN SentUnder("match[]") = <<>>
        ELSE SentUnder("match[]") =
               [i \in 1..Len(call.args.matches.list) |->
                  <<"match[]", call.args.matches.list[i].expr>>]

\* list_prometheus_label_values(matches=["up", "rate(foo[5m])"]) has sent
\* its request.
C16_Witness ==
    /\ InFlight
    /\ call.op = "list_prometheus_label_values"
    /\ call.args.matches # NoneValue
    /\ SentUnder("match[]") = << <<"match[]", "up">>, <<"match[]", "rate(foo[5m])">> >>

\* The ISO-8601 text of the start and end times of the model.
IsoText(dt) ==
    CASE dt = datetime(2023, 11, 14, 22, 13, 20, 500000) ->
             "2023-11-14T22:13:20.500000+00:00"
      [] dt = datetime(2024, 1, 5, 0, 0, 0, 0) -> "2024-01-05T00:00:00+00:00"

\* The entry for one optional argument: none when it is not given.
Entry(key, v, text) == IF v = NoneValue THEN <<>> ELSE << <<key, text>> >>
NumberText(v) == IF v = NoneValue THEN "" ELSE ToString(v.int)

\* C17: optional parameters are sent exactly when provided: the metadata
\* listing sends limit, limitPerMetric and metric only when given (a limit of
\* 0 is given and is sent); the label listings send start, end and limit only
\* when given, start and end as ISO-8601 text.
C17_OptionalParams ==
    /\ (call # NoCall /\ call.op = "list_prometheus_metric_metadata") =>
          SentParams =
              Entry("limit", call.args.limit, NumberText(call.args.limit))
              \o Entry("limitPerMetric", call.args.limit_per_metric,
                       NumberText(call.args.limit_per_metric))
              \o Entry("metric", call.args.metric,
                       IF call.args.metric = NoneValue THEN ""
                       ELSE call.args.metric.str)
    /\ (call # NoCall /\ call.op \in LabelOps) =>
          SelectSeq(SentParams, LAMBDA kv : kv[1] # "match[]") =
              Entry("start", call.args.start,
                    IF call.args.start = NoneValue THEN ""
                    ELSE IsoText(call.args.start))
              \o Entry("end", call.args.end,
                       IF call.args.end = NoneValue THEN ""
                       ELSE IsoText(call.args.end))
              \o Entry("limit", call.args.limit, NumberText(call.args.limit))

\* list_prometheus_metric_metadata(limit=0) has sent its request, with
\* limit=0 in it.
C17_Witness ==
    /\ InFlight
    /\ call.op = "list_prometheus_metric_metadata"
    /\ call.args.limit = IntValue(0) /\ call.args.metric = NoneValue
    /\ SentUnder("limit") = << <<"limit", "0">> >>

\* C18: there are no retries: every call of get, post or an endpoint
\* method issues at most one outbound request, whether that request succeeds,
\* is answered with a non-2xx status or gets no answer, and the call reports
\* its outcome once: a finished call neither sends again nor ends again.
C18_NoRetry ==
    /\ [][(Finished /\ ncalls' = ncalls) => call' = call]_vars
    /\ [][(InFlight /\ ncalls' = ncalls) =>
            (call'.phase = "done" /\ call'.sent = call.sent)]_vars
    /\ [](call # NoCall =>
            /\ call.nreq <= 1
            /\ (call.phase = "done" => call.reported = 1))

\* list_datasources has failed on a 500 response, after one request.
C18_Witness ==
    /\ Answered
    /\ call.op = "list_datasources"
    /\ call.response.status = 500
    /\ call.outcome.raised
    /\ call.nreq = 1

\* The call has ended on a transport error.
Unanswered ==
    IF Finished THEN call.response.kind = "TransportError" ELSE FALSE

\* C19: a transport-level failure (no response at all) reaches the caller as
\* the transport error itself, a kind distinct from GrafanaError: it is not
\* converted into another kind, not swallowed into a return value, and the
\* request is not sent again.
C19_TransportErrorPropagates ==
    Unanswered =>
        /\ call.outcome.raised
        /\ call.outcome.value = call.response
        /\ call.outcome.value.kind # GrafanaError(<<>>).kind
        /\ call.nreq = 1

\* A post has ended on a read timeout.
C19_Witness ==
    /\ Unanswered
    /\ call.op = "post"
    /\ call.response.error = "ReadTimeout"

\* The endpoint methods the transparency claim lists; get_datasource with an
\* identifier.
EndpointOps ==
    {"list_datasources", "get_datasource", "search_dashboards", "get_dashboard",
     "list_incidents", "create_incident", "add_activity_to_incident",
     "close_incident", "create_sift_investigation", "get_sift_investigation",
     "get_sift_analyses", "query", "list_prometheus_metric_metadata",
     "list_prometheus_label_names", "list_prometheus_label_values"}
Listed ==
    IF call = NoCall THEN FALSE
    ELSE /\ call.op \in EndpointOps
         /\ call.op = "get_datasource" =>
              (call.args.uid # None \/ call.args.name # None)

\* C20: every endpoint method is transparent over its verb: it makes its one
\* get or post, fails exactly when that get or post fails, with the same
\* error kind and payload, and on success returns exactly the bytes the verb
\* returned.
C20_Transparent ==
    Listed =>
        /\ call.nreq = 1
        /\ call.phase = "done" =>
             /\ call.verb # NoOutcome
             /\ call.outcome = call.verb

\* C21: when the inbound request is cancelled while a call of its client
\* waits on the outbound HTTP call, the call ends with the cancellation and
\* with nothing else: no result is returned, the one request it had sent
\* stays its only one, and nothing further happens on the client.
C21_CancellationPropagates ==
    /\ [][Cancelled => (call' = call /\ ncalls' = ncalls /\ gc' = gc)]_vars
    /\ [][(InFlight /\ call'.response = CancelledError) =>
            (call'.phase = "done" /\ call'.sent = call.sent)]_vars
    /\ [](Cancelled =>
            /\ call.outcome = Raise(CancelledError)
            /\ call.outcome.value.kind # Bytes(<<>>).kind
            /\ call.nreq = 1)

\* A query has been cancelled while its POST was in flight.
C21_Witness ==
    /\ Cancelled
    /\ call.op = "query"
    /\ call.sent.method = "POST"

\* C22: a client is immutable once constructed: no step of any call on gc,
\* be it get, post or an endpoint method, succeeding or failing, changes the
\* base URL or the credential of gc or of the other client.
C22_ClientImmutable ==
    [][/\ gc'.c.base_url = gc.c.base_url
       /\ gc'.c.auth = gc.c.auth
       /\ client'.c.base_url = client.c.base_url
       /\ client'.c.auth = client.c.auth]_vars

\* create_incident has failed on a client whose credential differs from the
\* other client's.
C22_Witness ==
    /\ Finished
    /\ call.op = "create_incident"
    /\ call.outcome.raised
    /\ IsClient(client)
    /\ client.c.auth # gc.c.auth /\ client.c.base_url # gc.c.base_url

----------------------------------------------------------------------------
(* Further claims on request handling (Spec) and construction (SpecBuild) *)

\* The client a bound request r reads in its root task, and its settings.
ClientOf(r)   == ContextVar_get(grafana_client, Task(r, 0))
SettingsIn(r) == ContextVar_get(grafana_settings, Task(r, 0))

\* C23: for_current_request builds the client from the settings bound in
\* the calling request's own context: the client of a bound request has the
\* URL and the credential that from_settings gives for that request's
\* settings, which are never the URL of another request; and it is resolved
\* once per request: while the request is being handled its client stays the
\* one object built when the request was bound.
C23_ForCurrentRequest ==
    /\ [][\A r \in Requests :
            (pc[r] = "bound" /\ pc'[r] = "bound") =>
               grafana_client'[Task(r, 0)] = grafana_client[Task(r, 0)]]_vars
    /\ [](\A r \in Requests : pc[r] = "bound" =>
            /\ ClientOf(r).c = from_settings(SettingsIn(r)).c
            /\ ClientOf(r).c.base_url = UrlOf(r)
            /\ \A q \in Requests \ {r} : ClientOf(r).c.base_url # UrlOf(q))

\* Two requests are bound at once, one resolved to an on-behalf-of client and
\* one to a Bearer client, the second with a call in flight from a nested
\* task.
C23_Witness ==
    \E r, q \in Requests :
        /\ r # q /\ pc[r] = "bound" /\ pc[q] = "bound"
        /\ ClientOf(r).c.auth.kind = "AccessTokenOnBehalfOfAuth"
        /\ ClientOf(q).c.auth.kind = "BearerAuth"
        /\ depth[q] = 1
        /\ sent[q] # NoRequest

\* C24: the two construction paths agree: for every combination of API key,
\* access token and identity token, the client from_settings builds has the
\* URL, the credential variant and the credential values of the client the
\* constructor builds from the same URL and the same three values.
C24_PathsAgree ==
    (how = "from_settings" /\ IsClient(client)) =>
        /\ client.c.base_url = args.url
        /\ client.c.auth =
             GrafanaClient_init(args.url, args.api_key, args.access_token,
                                args.id_token).c.auth

(* Further claims on the facade (SpecFacade) *)

\* C25: get_datasource addresses the datasource by uid whenever a uid is
\* given, also when a name is given as well (GET /api/datasources/uid/{uid}),
\* and by name only when no uid is given (GET /api/datasources/name/{name});
\* a call that has an identifier issues one request, to exactly one of the
\* two paths.
C25_UidBeforeName ==
    (call # NoCall /\ call.op = "get_datasource"
        /\ (call.args.uid # None \/ call.args.name # None)) =>
        /\ call.nreq = 1
        /\ call.sent.method = "GET"
        /\ call.sent.params = NoParams
        /\ call.sent.path =
             IF call.args.uid # None
             THEN "/api/datasources/uid/" \o call.args.uid
             ELSE "/api/datasources/name/" \o call.args.name

\* get_datasource() was called with a uid and a name, and has been answered.
C25_Witness ==
    /\ Finished
    /\ call.op = "get_datasource"
    /\ call.args = [uid |-> "ds1", name |-> "prom"]
    /\ call.sent.path = "/api/datasources/uid/ds1"
    /\ ~call.outcome.raised

-----------------------------------------------------------------------------
(* SpecLoop: the tool loop of the test harness (tests/utils.py) *)

\* The total number of tool calls the model requests in one run of the loop.
MaxToolCalls == 3

\* Python truthiness of None, a str and a list.
truthy(v) ==
    IF v.py = "None" THEN FALSE
    ELSE IF v.py = "str" THEN v.str # ""
    ELSE v.list # <<>>

\* The content items of a CallToolResult (mcp.types).
TextContent(text) == [type |-> "text", text |-> text]
ImageContent      == [type |-> "image"]
EmbeddedResource  == [type |-> "resource"]

\* json.loads on the argument texts the model produces here.
json_loads(text) ==
    IF text = "{\"uid\": \"d1\"}" THEN <<Item("uid", StrValue("d1"))>>
    ELSE <<>>

\* tests/utils.py:93-97: the arguments of a tool call as a dict.
arguments_of(tool_call) ==
    IF truthy(tool_call.function.arguments)
    THEN json_loads(tool_call.function.arguments.str)
    ELSE <<>>

\* client.call_tool: what the MCP server under test answers.
call_tool(tool_name, a) ==
    [content |->
       IF tool_name = "list_datasources"
       THEN <<EmbeddedResource, TextContent("[]")>>
       ELSE IF tool_name = "get_dashboard_by_uid"
       THEN <<ImageContent, TextContent("panel")>>
       ELSE <<>>]

\* tests/utils.py:62-70: the text of the first text or image item, "" if none.
RECURSIVE result_text_of(_)
result_text_of(content) ==
    IF content = <<>> THEN ""
    ELSE IF Head(content).type = "text" THEN Head(content).text
    ELSE IF Head(content).type = "image" THEN "[Image content]"
    ELSE result_text_of(Tail(content))

MCPToolCall(name, a, result) ==
    [name |-> name, args |-> a, result |-> result]

\* tests/utils.py:55-72
call_tool_and_record(tool_name, a) ==
    LET result == call_tool(tool_name, a)
    IN  [result_text |-> result_text_of(result.content),
         tool_call   |-> MCPToolCall(tool_name, a, result)]

\* litellm.Message
Message(role, content) == [role |-> role, content |-> content]
ToolMessage(tool_call_id, content) ==
    [role |-> "tool", tool_call_id |-> tool_call_id, content |-> content]
AssistantMessage(content, tool_calls) ==
    [role |-> "assistant", content |-> content, tool_calls |-> tool_calls]

ToolCall(id, name, arguments) ==
    [id |-> id, function |-> [name |-> name, arguments |-> arguments]]

\* The tool calls a model can request: a tool and the argument text it gives.
Requests3 ==
    { [name |-> "list_datasources",     arguments |-> StrValue("")],
      [name |-> "get_dashboard_by_uid", arguments |-> StrValue("{\"uid\": \"d1\"}")],
      [name |-> "search_dashboards",    arguments |-> NoneValue] }

\* The lists of n tool calls a response can carry, the first with number k.
RECURSIVE ToolCallLists(_, _)
ToolCallLists(n, k) ==
    IF n = 0 THEN {<<>>}
    ELSE { <<ToolCall("call_" \o ToString(k), q.name, q.arguments)>> \o rest :
             q \in Requests3, rest \in ToolCallLists(n - 1, k + 1) }

Completion(choices) == [kind |-> "ModelResponse", choices |-> choices]
Choice(message)     == [message |-> message]

\* What the model may answer when it has requested k tool calls so far.
Completions(k) ==
    { Completion(<<>>) }
    \cup { Completion(<<Choice(AssistantMessage(c, t))>>) :
             c \in {NoneValue, StrValue(""), StrValue("done")},
             t \in {NoneValue} }
    \cup { Completion(<<Choice(AssistantMessage(StrValue("done"), ListValue(<<>>)))>>) }
    \cup { Completion(<<Choice(AssistantMessage(NoneValue, ListValue(l)))>>) :
             l \in UNION { ToolCallLists(n, k + 1) : n \in 1..(MaxToolCalls - k) } }

\* tests/utils.py:91: the while condition.
wants_tools(r) ==
    IF r.choices = <<>> THEN FALSE ELSE truthy(r.choices[1].message.tool_calls)

\* tests/utils.py:108-112
Mut_final_content_raw(r) ==
    IF r.choices # <<>> THEN r.choices[1].message.content ELSE StrValue("")

final_content_of(r) ==
    IF r.choices # <<>>
    THEN IF truthy(r.choices[1].message.content)
         THEN r.choices[1].message.content
         ELSE StrValue("")
    ELSE StrValue("")

Mut_expected_list_bare(e) ==
    IF e.py = "str" THEN <<>> ELSE e.list

\* tests/utils.py:124, tests/mcp_eval_utils.py:102
expected_list(e) ==
    IF e.py = "str" THEN <<e.str>> ELSE e.list

\* tests/utils.py:125, tests/mcp_eval_utils.py:103
called_names(called) == [i \in 1..Len(called) |-> called[i].name]

\* tests/utils.py:116-129, tests/mcp_eval_utils.py:94-107: the for loop raises
\* at the first expected name that is not among the called names.
RECURSIVE assert_all(_, _)
assert_all(names, called) ==
    IF names = <<>> THEN "passed"
    ELSE IF \E i \in 1..Len(called) : called[i] = Head(names)
    THEN assert_all(Tail(names), called)
    ELSE "AssertionError"

assert_expected_tools_called(called, e) ==
    assert_all(expected_list(e), called_names(called))

\* What a test may expect.
Expecteds ==
    { StrValue("list_datasources"), StrValue("query_prometheus"),
      ListValue(<<>>),
      ListValue(<<"list_datasources", "get_dashboard_by_uid">>),
      ListValue(<<"get_dashboard_by_uid", "list_datasources">>),
      ListValue(<<"list_datasources", "list_datasources">>),
      ListValue(<<"search_dashboards", "query_prometheus">>) }

\* tests/utils.py:82-89: run_llm_tool_loop up to its first request to the model.
LoopInit ==
    /\ lpc = "acompletion"
    /\ llm_response = NoCompletion
    /\ tc = 1
    /\ messages = << Message("system", "You are a helpful assistant."),
                     Message("user", "prompt") >>
    /\ tools_called = <<>>
    /\ asked = <<>>
    /\ final_content = NotReturned
    /\ expected = NotReturned
    /\ verdict = "none"

\* tests/utils.py:89, 106: the model answers the request.
acompletion ==
    /\ lpc = "acompletion"
    /\ \E r \in Completions(Len(tools_called)) :
         /\ llm_response' = r
         /\ asked' = Append(asked, r)
    /\ lpc' = "while"
    /\ tc' = 1
    /\ UNCHANGED <<messages, tools_called, final_content, expected, verdict>>
    /\ UNCHANGED <<reqVars, buildVars, callVars, linkVars>>

\* tests/utils.py:92-105: one pass of the for loop; after the last tool call
\* of the response the model is asked again (line 106).
for_tool_call ==
    /\ lpc = "while"
    /\ wants_tools(llm_response)
    /\ LET message   == llm_response.choices[1].message
           tool_call == message.tool_calls.list[tc]
           tool_name == tool_call.function.name
           a         == arguments_of(tool_call)
           done      == call_tool_and_record(tool_name, a)
       IN  /\ tools_called' = Append(tools_called, done.tool_call)
           /\ messages' = Append(Append(messages, message),
                                 ToolMessage(tool_call.id, done.result_text))
           /\ IF tc < Len(message.tool_calls.list)
              THEN tc' = tc + 1 /\ lpc' = "while"
              ELSE tc' = 1 /\ lpc' = "acompletion"
    /\ UNCHANGED <<llm_response, asked, final_content, expected, verdict>>
    /\ UNCHANGED <<reqVars, buildVars, callVars, linkVars>>

\* tests/utils.py:91, 108-113: the loop is left and the function returns.
return_final ==
    /\ lpc = "while"
    /\ ~wants_tools(llm_response)
    /\ final_content' = final_content_of(llm_response)
    /\ lpc' = "returned"
    /\ UNCHANGED <<llm_response, tc, messages, tools_called, asked, expected, verdict>>
    /\ UNCHANGED <<reqVars, buildVars, callVars, linkVars>>

\* The test checks the tools the loop recorded against those it expects.
check_expected ==
    /\ lpc = "returned"
    /\ verdict = "none"
    /\ \E e \in Expecteds :
         /\ expected' = e
         /\ verdict' = assert_expected_tools_called(tools_called, e)
    /\ UNCHANGED <<lpc, llm_response, tc, messages, tools_called, asked,
                   final_content>>
    /\ UNCHANGED <<reqVars, buildVars, callVars, linkVars>>

InitLoop == ReqInit /\ BuildIdle /\ CallIdle /\ LoopInit /\ LinkIdle

NextLoop == acompletion \/ for_tool_call \/ return_final \/ check_expected

SpecLoop == InitLoop /\ [][NextLoop]_vars

-----------------------------------------------------------------------------
(* Claims on the tool loop (SpecLoop) *)

CalledNameSet == { tools_called[i].name : i \in 1..Len(tools_called) }

ExpectedNameSet ==
    IF expected.py = "str" THEN {expected.str}
    ELSE { expected.list[i] : i \in 1..Len(expected.list) }

\* C26: assert_expected_tools_called passes if and only if every expected tool
\* name occurs among the names of the recorded tool calls, whatever their
\* order and multiplicity and whatever other tools were called; a single
\* string counts as a one-element list, and an empty list always passes.
C26_ExpectedTools ==
    verdict # "none" =>
        /\ verdict \in {"passed", "AssertionError"}
        /\ verdict = "passed" <=> ExpectedNameSet \subseteq CalledNameSet
        /\ expected = ListValue(<<>>) => verdict = "passed"

\* The check passed on two expected tools that were called in the other
\* order, one of them twice, along with a tool nobody expected.
C26_Witness ==
    /\ verdict = "passed"
    /\ expected = ListValue(<<"get_dashboard_by_uid", "list_datasources">>)
    /\ called_names(tools_called)
         = <<"list_datasources", "search_dashboards", "get_dashboard_by_uid">>

\* The tool calls a response of the model requests.
RequestedBy(r) ==
    IF r.choices = <<>> THEN <<>>
    ELSE IF r.choices[1].message.tool_calls.py = "list"
    THEN r.choices[1].message.tool_calls.list
    ELSE <<>>

\* The tool calls of a sequence of responses, in the order requested.
RECURSIVE Requested(_)
Requested(rs) ==
    IF rs = <<>> THEN <<>> ELSE RequestedBy(Head(rs)) \o Requested(Tail(rs))

\* The content of a response, when it has one that is not empty.
ContentOr(r, default) ==
    IF r.choices = <<>> THEN default
    ELSE IF r.choices[1].message.content.py = "str"
    THEN r.choices[1].message.content.str
    ELSE default

\* C27: run_llm_tool_loop executes every tool call the model requests, in the
\* order requested within a response and across rounds, and appends exactly
\* one record per executed call to tools_called in that order; it asks the
\* model again after each round and returns as soon as a response has no tool
\* calls or no choices, the final content being that response's message
\* content, or the empty string when there is none.
C27_ToolLoop ==
    /\ [](lpc # "idle" =>
          LET req == Requested(asked)
          IN  /\ Len(tools_called) <= Len(req)
              /\ \A k \in 1..Len(tools_called) :
                    /\ tools_called[k].name = req[k].function.name
                    /\ tools_called[k].args = arguments_of(req[k])
                    /\ tools_called[k].result =
                         call_tool(req[k].function.name, arguments_of(req[k]))
              /\ lpc = "while" =>
                    Len(tools_called)
                      = Len(req) - Len(RequestedBy(llm_response)) + tc - 1
              /\ lpc \in {"acompletion", "returned"} =>
                    Len(tools_called) = Len(req)
              /\ lpc = "acompletion" =>
                    \A i \in 1..Len(asked) : RequestedBy(asked[i]) # <<>>
              /\ lpc = "returned" =>
                    /\ RequestedBy(asked[Len(asked)]) = <<>>
                    /\ \A i \in 1..(Len(asked) - 1) : RequestedBy(asked[i]) # <<>>
                    /\ final_content = StrValue(ContentOr(asked[Len(asked)], "")))
    /\ [][/\ (lpc = "while" /\ RequestedBy(llm_response) = <<>>) =>
                (lpc' = "returned" /\ tools_called' = tools_called)
          /\ (lpc = "while" /\ tc = Len(RequestedBy(llm_response))) =>
                lpc' = "acompletion"
          /\ (lpc = "while" /\ tc < Len(RequestedBy(llm_response))) =>
                (lpc' = "while" /\ tc' = tc + 1 /\ llm_response' = llm_response)
          /\ lpc = "returned" =>
                (lpc' = "returned" /\ tools_called' = tools_called
                   /\ final_content' = final_content)]_vars

\* The loop has returned after two rounds, the first with two tool calls, on
\* a final response that has no content.
C27_Witness ==
    /\ lpc = "returned"
    /\ Len(asked) = 3
    /\ Len(RequestedBy(asked[1])) = 2
    /\ Len(RequestedBy(asked[2])) = 1
    /\ asked[3].choices # <<>>
    /\ asked[3].choices[1].message.content = NoneValue
    /\ final_content = StrValue("")
    /\ Len(tools_called) = 3

\* The tool-result messages for a list of tool calls.
ResultsFor(calls) ==
    [i \in 1..Len(calls) |->
       ToolMessage(calls[i].id,
                   result_text_of(call_tool(calls[i].function.name,
                                            arguments_of(calls[i])).content))]

\* The history of a sequence of rounds: each assistant message once, then the
\* results of its tool calls.
RECURSIVE History(_)
History(rs) ==
    IF rs = <<>> THEN <<>>
    ELSE IF RequestedBy(Head(rs)) = <<>> THEN History(Tail(rs))
    ELSE <<Head(rs).choices[1].message>> \o ResultsFor(RequestedBy(Head(rs)))
            \o History(Tail(rs))

\* C28: the message history sent back to the model contains each assistant
\* tool-call message exactly once, followed by one tool-result message for
\* each tool call of that message, in call order, also when one response
\* requests several tool calls.
C28_HistoryShape ==
    lpc = "acompletion" =>
        messages = << Message("system", "You are a helpful assistant."),
                      Message("user", "prompt") >> \o History(asked)

-----------------------------------------------------------------------------
(* SpecLinks: the documentation link checker (docs/docs.agent/links.py).      *)
(* A str is a sequence of characters, a path a sequence of names from the     *)
(* root.                                                                      *)

\* The number of links in the Markdown file whose content is drawn.
MaxLinks == 2

Whitespace == {" ", "\t", "\n"}

Least(S) == CHOOSE x \in S : \A y \in S : x <= y
Most(S)  == CHOOSE x \in S : \A y \in S : x >= y

\* The characters of a str as one TLA+ string.
RECURSIVE text(_)
text(chars) == IF chars = <<>> THEN "" ELSE Head(chars) \o text(Tail(chars))

\* str.startswith, str.endswith
startswith(str_, prefix) ==
    Len(prefix) <= Len(str_) /\ SubSeq(str_, 1, Len(prefix)) = prefix
endswith(str_, suffix) ==
    /\ Len(suffix) <= Len(str_)
    /\ SubSeq(str_, Len(str_) - Len(suffix) + 1, Len(str_)) = suffix

\* str.strip() is empty
blank(str_) == \A i \in 1..Len(str_) : str_[i] \in Whitespace

\* str.split(sep)[0]
split_first(str_, sep) ==
    LET hits == { i \in 1..Len(str_) : str_[i] = sep }
    IN  IF hits = {} THEN str_ ELSE SubSeq(str_, 1, Least(hits) - 1)

\* str.split(sep)
RECURSIVE split(_, _)
split(str_, sep) ==
    LET hits == { i \in 1..Len(str_) : str_[i] = sep }
    IN  IF hits = {} THEN <<str_>>
        ELSE <<SubSeq(str_, 1, Least(hits) - 1)>>
               \o split(SubSeq(str_, Least(hits) + 1, Len(str_)), sep)

\* str.split()[0]: the first run of characters that are not whitespace; an
\* IndexError when there is none.
split_whitespace_first(str_) ==
    LET starts == { i \in 1..Len(str_) : str_[i] \notin Whitespace }
    IN  IF starts = {} THEN [ok |-> FALSE, exception |-> "IndexError"]
        ELSE LET a    == Least(starts)
                 ends == { j \in a..Len(str_) : str_[j] \in Whitespace }
                 b    == IF ends = {} THEN Len(str_) ELSE Least(ends) - 1
             IN  [ok |-> TRUE, str |-> SubSeq(str_, a, b)]

\* os.path.normpath on the names of an absolute path.
RECURSIVE normpath_onto(_, _)
normpath_onto(done, names) ==
    IF names = <<>> THEN done
    ELSE IF Head(names) \in {<<>>, <<".">>} THEN normpath_onto(done, Tail(names))
    ELSE IF Head(names) = <<".", ".">>
    THEN normpath_onto(IF done = <<>> THEN done
                       ELSE SubSeq(done, 1, Len(done) - 1), Tail(names))
    ELSE normpath_onto(Append(done, Head(names)), Tail(names))

normpath(names) == normpath_onto(<<>>, names)

\* pathlib: base / link; a link that starts with "/" replaces the base.
joinpath(base_, link) ==
    IF startswith(link, <<"/">>) THEN split(link, "/")
    ELSE base_ \o split(link, "/")

\* pathlib: PurePath.suffix, as the position of its dot in the name (0: none).
suffix_at(name_) ==
    LET dots == { i \in 1..Len(name_) : name_[i] = "." }
    IN  IF dots = {} THEN 0
        ELSE IF 1 < Most(dots) /\ Most(dots) < Len(name_) THEN Most(dots)
        ELSE 0

\* pathlib: PurePath.stem
stem(name_) ==
    IF suffix_at(name_) = 0 THEN name_ ELSE SubSeq(name_, 1, suffix_at(name_) - 1)

parent(p) == SubSeq(p, 1, Len(p) - 1)
name(p)   == p[Len(p)]

\* pathlib: PurePath.with_suffix: the suffix replaces the one the name has.
with_suffix(p, suffix) ==
    IF p = <<>> THEN [ok |-> FALSE, exception |-> "ValueError"]
    ELSE [ok |-> TRUE, path |-> Append(parent(p), stem(name(p)) \o suffix)]

\* pathlib: path.relative_to(docs_dir), as text.
RECURSIVE joined(_)
joined(names) ==
    IF names = <<>> THEN ""
    ELSE IF Len(names) = 1 THEN text(Head(names))
    ELSE text(Head(names)) \o "/" \o joined(Tail(names))

relative_to(p, dir) == joined(SubSeq(p, Len(dir) + 1, Len(p)))

\* The docs tree the checker runs on.
docs_dir  == <<<<"s", "i", "t", "e">>, <<"d", "o", "c", "s">>>>
IndexFile == <<<<"s", "i", "t", "e">>, <<"d", "o", "c", "s">>, <<"_", "i", "n", "d", "e", "x", ".", "m", "d">>>>
SetupFile == <<<<"s", "i", "t", "e">>, <<"d", "o", "c", "s">>, <<"s", "e", "t", "u", "p", ".", "m", "d">>>>
Files     == {IndexFile, SetupFile}

\* Path.is_file
is_file(p) == p \in Files

\* The links a Markdown file may hold, as re.findall gives them.
Links ==
    {
      <<"h", "t", "t", "p", "s", ":", "/", "/", "g", "r", "a", "f", "a", "n", "a", ".", "c", "o", "m", "/">>,
      <<"m", "a", "i", "l", "t", "o", ":", "a", "@", "b", ".", "c">>,
      <<"#", "t", "o", "p">>,
      <<>>,
      <<"s", "e", "t", "u", "p", "/">>,
      <<"s", "e", "t", "u", "p", "/", "#", "x", " ", "\"", "T", "\"">>,
      <<"s", "e", "t", "u", "p", ".", "m", "d">>,
      <<"/", "d", "o", "c", "s", "/", "s", "e", "t", "u", "p", "/">>,
      <<"m", "i", "s", "s", "i", "n", "g", "/">>,
      <<".", ".", "/">>,
      <<"h", "t", "t", "p", "d", "/">>,
      <<"s", "e", "t", "u", "p", ".", "x", "/">>,
      <<" ", "#", "t", "o", "p">>
    }

RECURSIVE LinkLists(_)
LinkLists(n) ==
    IF n = 0 THEN {<<>>}
    ELSE LinkLists(n - 1)
           \cup { Append(l, k) : l \in { x \in LinkLists(n - 1) : Len(x) = n - 1 },
                                 k \in Links }

\* links.py:18-27
error(errs, src, link, msg) ==
    Append(errs, "ERROR: " \o src \o " - " \o msg \o ": " \o text(link))

\* links.py:56
skipped(link) ==
    \/ startswith(link, <<"h", "t", "t", "p">>)
    \/ startswith(link, <<"h", "t", "t", "p", "s">>)
    \/ startswith(link, <<"m", "a", "i", "l", "t", "o", ":">>)
    \/ startswith(link, <<"#">>)

\* links.py:78: the directory a link of file p is relative to.
base_of(p) ==
    IF name(p) = <<"_", "i", "n", "d", "e", "x", ".", "m", "d">> THEN parent(p)
    ELSE Append(parent(p), stem(name(p)))

\* links.py:82
target_exists(target) ==
    LET as_md == with_suffix(target, <<".", "m", "d">>)
    IN  IF ~as_md.ok THEN [ok |-> FALSE, exception |-> as_md.exception]
        ELSE [ok |-> TRUE,
              exists |-> \/ is_file(as_md.path)
                         \/ is_file(Append(target, <<"_", "i", "n", "d", "e", "x", ".", "m", "d">>))]

\* links.py:51-83: the body of the inner loop for one link of file p. The
\* errors afterwards, or the exception that ends the program.
check_link(errs, p, link0) ==
    LET src == relative_to(p, docs_dir)
    IN  IF blank(link0) \/ skipped(link0) THEN [ok |-> TRUE, errors |-> errs]
        ELSE
        LET word == split_whitespace_first(split_first(link0, "#"))
        IN  IF ~word.ok THEN [ok |-> FALSE, exception |-> word.exception]
            ELSE
            LET link == word.str
            IN  IF endswith(link, <<".", "m", "d">>)
                THEN [ok |-> TRUE,
                      errors |-> error(errs, src, link,
                                   "Link has .md extension and should end in /")]
                ELSE IF startswith(link, <<"/", "d", "o", "c", "s", "/">>)
                THEN [ok |-> TRUE,
                      errors |-> error(errs, src, link,
                                   "Link is absolute and should be relative")]
                ELSE
                LET there == target_exists(normpath(joinpath(base_of(p), link)))
                IN  IF ~there.ok
                    THEN [ok |-> FALSE, exception |-> there.exception]
                    ELSE IF there.exists THEN [ok |-> TRUE, errors |-> errs]
                    ELSE [ok |-> TRUE,
                          errors |-> error(errs, src, link, "Target does not exist")]

Success == "All links are formatted correctly and all targets exist"

\* The checker is started on a docs tree: one file holds the drawn links, the
\* other a link to the index of its parent directory, or it cannot be read.
LinksInit ==
    /\ argv \in { <<"links.py">>, <<"links.py", "/site/docs">> }
    /\ \E f \in Files, l \in LinkLists(MaxLinks) :
         tree = [g \in Files |-> IF g = f THEN l ELSE <<<<".", ".", "/">>>>]
    /\ unreadable \in { {}, {SetupFile} }
    /\ Len(argv) < 2 => (tree[IndexFile] = <<>> /\ unreadable = {})
    /\ todo = Files
    /\ md = NoFile
    /\ found = <<>>
    /\ errors = <<>>
    /\ stdout = <<>>
    /\ stderr = <<>>
    /\ exited = "no"

\* links.py:36-37
usage ==
    /\ exited = "no"
    /\ Len(argv) < 2
    /\ stderr' = <<"Usage: " \o argv[1] \o " <DOCS_SOURCE_PATH>">>
    /\ exited' = "1"
    /\ UNCHANGED <<argv, tree, unreadable, todo, md, found, errors, stdout>>
    /\ UNCHANGED <<reqVars, buildVars, callVars, loopVars>>

\* links.py:41-51: rglob yields the next Markdown file, in no particular
\* order; it is read and its links are found, or the failure is recorded.
next_file ==
    /\ exited = "no"
    /\ Len(argv) >= 2
    /\ found = <<>>
    /\ \E p \in todo :
         /\ todo' = todo \ {p}
         /\ IF p \in unreadable
            THEN /\ errors' = Append(errors, "ERROR: Could not read /"
                                              \o joined(p) \o ": PermissionError")
                 /\ UNCHANGED <<md, found>>
            ELSE /\ md' = p
                 /\ found' = tree[p]
                 /\ UNCHANGED errors
    /\ UNCHANGED <<argv, tree, unreadable, stdout, stderr, exited>>
    /\ UNCHANGED <<reqVars, buildVars, callVars, loopVars>>

\* links.py:51-83: the next link of the file is checked; an exception that
\* nothing catches ends the program with a traceback and status 1.
scan_link ==
    /\ exited = "no"
    /\ found # <<>>
    /\ LET checked == check_link(errors, md, Head(found))
       IN  IF checked.ok
           THEN /\ errors' = checked.errors
                /\ found' = Tail(found)
                /\ UNCHANGED <<stderr, exited>>
           ELSE /\ stderr' = <<"Traceback (most recent call last)",
                               checked.exception>>
                /\ exited' = "1"
                /\ UNCHANGED <<errors, found>>
    /\ UNCHANGED <<argv, tree, unreadable, todo, md, stdout>>
    /\ UNCHANGED <<reqVars, buildVars, callVars, loopVars>>

\* links.py:85-89
finish ==
    /\ exited = "no"
    /\ Len(argv) >= 2
    /\ found = <<>>
    /\ todo = {}
    /\ IF errors # <<>>
       THEN stdout' = errors /\ exited' = "1"
       ELSE stdout' = <<Success>> /\ exited' = "0"
    /\ UNCHANGED <<argv, tree, unreadable, todo, md, found, errors, stderr>>
    /\ UNCHANGED <<reqVars, buildVars, callVars, loopVars>>

InitLinks == ReqInit /\ BuildIdle /\ CallIdle /\ LoopIdle /\ LinksInit

NextLinks == usage \/ next_file \/ scan_link \/ finish

SpecLinks == InitLinks /\ [][NextLinks]_vars

-----------------------------------------------------------------------------
(* Claims on the link checker (SpecLinks) *)

\* C29: links.py exits with status 1 if and only if at least one error was
\* recorded during the scan (an unreadable file, a link with .md extension,
\* an absolute /docs/ link, or a missing target), after printing every
\* recorded error; otherwise it prints the success message and ends normally.
C29_ExitStatus ==
    (exited # "no" /\ Len(argv) >= 2) =>
        /\ exited = "1" <=> errors # <<>>
        /\ exited = "1" => stdout = errors
        /\ exited = "0" => stdout = <<Success>>

\* An external http or https URL, a mailto link or an in-page anchor.
NotLocal(link) ==
    \/ startswith(link, <<"h", "t", "t", "p", ":", "/", "/">>)
    \/ startswith(link, <<"h", "t", "t", "p", "s", ":", "/", "/">>)
    \/ startswith(link, <<"m", "a", "i", "l", "t", "o", ":">>)
    \/ startswith(link, <<"#">>)

\* The path of a link, without its anchor and title.
Cleaned(link) == split_whitespace_first(split_first(link, "#"))

\* The target of a link of file p exists neither as <target>.md nor as
\* <target>/_index.md.
Missing(p, link) ==
    LET target == normpath(joinpath(base_of(p), link))
    IN  \/ target = <<>>
        \/ /\ Append(parent(target), name(target) \o <<".", "m", "d">>) \notin Files
           /\ Append(target, <<"_", "i", "n", "d", "e", "x", ".", "m", "d">>)
                \notin Files

\* An error is on record for a link of file p.
Recorded(p, link) ==
    \E i \in 1..Len(errors) :
        \E msg \in {"Link has .md extension and should end in /",
                    "Link is absolute and should be relative",
                    "Target does not exist"} :
            errors[i] = "ERROR: " \o relative_to(p, docs_dir) \o " - " \o msg
                          \o ": " \o text(link)

\* C30: links.py records an error for every Markdown link to a local path (a
\* link that is not an external http/https URL, a mailto link or an in-page
\* anchor) whose target exists neither as <target>.md nor as
\* <target>/_index.md, and the scan of the remaining links and files goes on
\* after each recorded error: when the program has ended, every such link of
\* every readable file has its error.
C30_MissingTargets ==
    (exited # "no" /\ Len(argv) >= 2) =>
        \A p \in Files \ unreadable :
            \A i \in 1..Len(tree[p]) :
                LET link == tree[p][i]
                IN  (/\ ~blank(link)
                     /\ ~NotLocal(link)
                     /\ Cleaned(link).ok
                     /\ Missing(p, Cleaned(link).str))
                       => Recorded(p, Cleaned(link).str)

====
